---------------------------- MODULE Spec2Model ----------------------------
(***************************************************************************)
(* Spotify -> YouTube converter, phase system.                             *)
(*                                                                         *)
(*   Phase 1  scripts/search-tracks.ts   search sessions over a playlist,  *)
(*            persisted in <id>-search-progress.json                       *)
(*   Phase 2  create-playlist            builds the YouTube playlist from   *)
(*            the progress file, writes <id>-playlist-result.json          *)
(*   Retry    retry-failed               re-attempts the failed adds of a   *)
(*            result file and rewrites it                                  *)
(*                                                                         *)
(* Each run of a script is one process: its in-memory record is lost when  *)
(* the process ends, the two JSON files are all that survives.  A file is  *)
(* modelled as a sequence of length <= 1: <<>> is "no such file", <<r>> is *)
(* a file holding the record r.  Timestamps, names and urls are written by *)
(* the code but read by none of the logic below and are left out.          *)
(***************************************************************************)
EXTENDS Integers, Sequences, FiniteSets, TLC

(***************************************************************************)
(* Bounds of the model.                                                    *)
(***************************************************************************)
\* tracks the Spotify playlist returns
NumTracks == 7
\* largest batch size a session is started with
MaxBatch == 5
\* the playlist's total may count that many items without a valid track
MaxNullItems == 1
\* results in the progress file a build starts from
MaxBuildTracks == 3
\* items in one search response (searchVideo asks for 5)
MaxCandidates == 2
\* tracks already searched when the phases start to alternate
SearchedBefore == 2
\* tracks passed to findMatchesForTracks
MaxMatchTracks == 5
\* largest maxRetries retryWithBackoff is called with
MaxMaxRetries == 3
\* how often the clock advances, by half an hour
MaxClockSteps == 3
\* create-playlist / retry-failed processes started
MaxRuns == 3

(***************************************************************************)
(* Program constants.                                                      *)
(***************************************************************************)
\* JavaScript null, as the value of youtube_video
Null == 0
\* quota units per search
SearchCost == 100
\* a checkpoint is written when (globalIndex + 1) % CheckpointEvery === 0
CheckpointEvery == 5
\* quota units for creating the playlist
PlaylistCreationCost == 50
\* quota units per video added
AddCost == 50
\* batchSize of findMatchesForTracks
MatchBatchSize == 3

VARIABLES
    \* ---- environment
    playlistTotal,  \* playlist.tracks.total as Spotify reports it
    \* ---- persisted
    file,           \* <id>-search-progress.json
    \* ---- the running search session (search-tracks.ts main)
    pc,             \* "idle" | "batch"
    mem,            \* the session's SearchProgress object, <<>> outside a session
    startIndex,     \* searchTrackBatch parameter
    batchSize,      \* searchTrackBatch parameter
    i,              \* loop index of searchTrackBatch
    \* ---- history
    entry,          \* what the current/last session loaded: results length and
                    \* tracks_processed
    lastSession,    \* how the last session ended
    allPositive,    \* every session so far was started with a batch size >= 1
    \* ---- a second process running search-tracks.ts on the same playlist
    otherSession,   \* its progress object and the locals of its batch
    \* ---- environment of the build phase
    youtube,        \* the videos the playlistItems endpoint refuses to add:
                    \* video id -> its error response; any other video is added
    \* ---- persisted by the build phase
    resultFile,     \* <id>-playlist-result.json
    \* ---- the running build or retry (its locals; kept after it ends)
    job,
    \* ---- history
    addLog,         \* video ids passed to addVideoToPlaylist by the current/last run
    lastRun,        \* how the last build or retry ended
    resultBy,       \* which script wrote resultFile
    \* ---- one call of youtubeService.searchVideo
    searchPc,       \* "idle" | "searching" | "returned"
    spotifyTrack,   \* its parameter
    queries,        \* generateSearchQueries(spotifyTrack)
    videos,         \* what searchVideos returned for the last query
    bestMatch,      \* what findBestMatch returned for them
    found,          \* what searchVideo returned: <<>> is null
    \* ---- history
    issued,         \* the queries passed to searchVideos so far, in order
    outcomes,       \* how each of them ended
    \* ---- the caller of searchVideo
    searchResult,   \* what it made of the returned video, << >> before that
    \* ---- youtubeService.findMatchesForTracks
    findMatches,    \* its locals and the state of the searches it started
    \* ---- convertPlaylist, step 4
    conversion,     \* its locals
    \* ---- retryWithBackoff
    retrying,       \* its parameters and locals, and what fn did so far
    \* ---- the OAuth handling of create-playlist and retry-failed
    oauth           \* the OAuthService object of the running process, the clock

searchVars == <<playlistTotal, mem, startIndex, batchSize, i,
                entry, lastSession, allPositive, otherSession>>
buildVars == <<youtube, resultFile, job, addLog, lastRun, resultBy>>

serviceVars == <<findMatches, conversion, retrying, oauth>>

searchVideoVars == <<searchPc, spotifyTrack, queries, videos, bestMatch, found,
                     issued, outcomes, searchResult>>

matchVars == <<searchVideoVars, serviceVars>>

vars == <<file, pc, searchVars, buildVars, matchVars>>

Min(a, b) == IF a <= b THEN a ELSE b
Max(a, b) == IF a >= b THEN a ELSE b

\* spotifyService.getPlaylistTracks: the valid tracks, in playlist order
allTracks == [t \in 1..NumTracks |-> t]

\* batch sizes a session may be started with (argv[3], parseInt)
BatchSizes == 0..MaxBatch

\* Array.prototype.slice(start, end): negative indices count from the end
Slice(s, start, end) ==
    LET len == Len(s)
        k   == IF start < 0 THEN Max(len + start, 0) ELSE Min(start, len)
        fin == IF end < 0 THEN Max(len + end, 0) ELSE Min(end, len)
    IN  IF k < fin THEN SubSeq(s, k + 1, fin) ELSE << >>

\* the video searchVideo returns for a track when it finds one
VideoOf(t) == t

TrackSearchResult(t, v) == [spotify_track |-> t, youtube_video |-> v]

\* loadOrCreateProgress, no progress file yet
NewProgress ==
    [ spotify_playlist |-> [total_tracks |-> playlistTotal],
      tracks |-> << >>,
      progress |-> [ tracks_processed |-> 0, tracks_found |-> 0,
                     tracks_not_found |-> 0, current_batch_start |-> 0 ],
      search_stats |-> [ total_quota_used |-> 0, searches_performed |-> 0 ] ]

\* a load that takes the playlist's data from the live playlist every time
loadOrCreateProgressRefreshed ==
    IF file # << >>
      THEN [file[1] EXCEPT !.spotify_playlist = [total_tracks |-> playlistTotal]]
      ELSE NewProgress

loadOrCreateProgress == IF file # << >> THEN file[1] ELSE NewProgress

\* a try block that counts every outcome as found
RecordOutcomeAsFound(p, t, v) ==
    [ p EXCEPT
        !.tracks = Append(@, TrackSearchResult(t, v)),
        !.progress.tracks_processed = @ + 1,
        !.search_stats.searches_performed = @ + 1,
        !.search_stats.total_quota_used = @ + SearchCost,
        !.progress.tracks_found = @ + 1 ]

\* a try block that puts the new result in front of the list (unshift)
RecordOutcomeAtFront(p, t, v) ==
    [ p EXCEPT
        !.tracks = <<TrackSearchResult(t, v)>> \o @,
        !.progress.tracks_processed = @ + 1,
        !.search_stats.searches_performed = @ + 1,
        !.search_stats.total_quota_used = @ + SearchCost,
        !.progress.tracks_found = IF v # Null THEN @ + 1 ELSE @,
        !.progress.tracks_not_found = IF v = Null THEN @ + 1 ELSE @ ]

\* searchTrackBatch, try block up to the checkpoint test: the outcome v of
\* searchVideo is pushed and counted
RecordOutcome(p, t, v) ==
    [ p EXCEPT
        !.tracks = Append(@, TrackSearchResult(t, v)),
        !.progress.tracks_processed = @ + 1,
        !.search_stats.searches_performed = @ + 1,
        !.search_stats.total_quota_used = @ + SearchCost,
        !.progress.tracks_found = IF v # Null THEN @ + 1 ELSE @,
        !.progress.tracks_not_found = IF v = Null THEN @ + 1 ELSE @ ]

\* a catch block that forgets to count the track as not found
RecordErrorUncounted(p, t) ==
    [ p EXCEPT
        !.progress.tracks_processed = @ + 1,
        !.tracks = Append(@, TrackSearchResult(t, Null)) ]

\* searchTrackBatch, catch block
RecordError(p, t) ==
    [ p EXCEPT
        !.progress.tracks_processed = @ + 1,
        !.progress.tracks_not_found = @ + 1,
        !.tracks = Append(@, TrackSearchResult(t, Null)) ]

\* a new OAuthService(...): the fields as the class initialises them
NewOAuthService == [accessToken |-> Null, refreshToken |-> Null, tokenExpiry |-> 0]

\* no create-playlist or retry-failed process has run yet
NoProcess ==
    [ pc |-> "none", authorizationCode |-> << >>, service |-> NewOAuthService,
      now |-> 0, runs |-> 0, exchanged |-> FALSE, exchangedBefore |-> FALSE ]

\* retryWithBackoff is not running
NoRetrying ==
    [ pc |-> "idle", maxRetries |-> 0, baseDelay |-> 0, attempt |-> 0,
      delay |-> 0, outcomes |-> << >>, result |-> << >> ]

\* convertPlaylist is not running
NoConversion == [pc |-> "idle", n |-> 0, i |-> 0, addedCount |-> 0, succeeded |-> 0]

\* findMatchesForTracks is not running
NoMatching ==
    [ pc |-> "idle", n |-> 0, i |-> 0, status |-> << >>, completed |-> << >>,
      mappings |-> << >> ]

\* no second process
NoSession ==
    [ pc |-> "idle", mem |-> << >>, startIndex |-> 0, batchSize |-> 0, i |-> 0,
      lastSession |-> "none" ]

\* the checkpoint test of searchTrackBatch
IsCheckpoint(globalIndex) == (globalIndex + 1) % CheckpointEvery = 0

SetBatchStart(p, n) == [p EXCEPT !.progress.current_batch_start = n]

\* searchTrackBatch: endIndex and batch
EndIndex == Min(startIndex + batchSize, Len(allTracks))
Batch == Slice(allTracks, startIndex, EndIndex)

(***************************************************************************)
(* main of search-tracks.ts up to the first iteration of searchTrackBatch. *)
(***************************************************************************)
StartSession(b) ==
    /\ pc = "idle"
    /\ LET progress  == loadOrCreateProgress
           remaining == Len(allTracks) - progress.progress.tracks_processed
       IN  /\ entry' = [ len |-> Len(progress.tracks),
                         processed |-> progress.progress.tracks_processed ]
           /\ batchSize' = b
           /\ startIndex' = progress.progress.current_batch_start
           /\ allPositive' = (allPositive /\ b >= 1)
           /\ i' = 0
           /\ IF remaining = 0
                THEN /\ pc' = "idle"
                     /\ mem' = << >>
                     /\ lastSession' = "nothing to do"
                ELSE /\ pc' = "batch"
                     /\ mem' = <<progress>>
                     /\ lastSession' = "running"
    /\ UNCHANGED <<playlistTotal, file, buildVars, matchVars, otherSession>>

(***************************************************************************)
(* One iteration of the loop of searchTrackBatch.  searchVideo resolves to *)
(* a video or to null and never rejects, so the catch block is entered     *)
(* only from a statement after the push: the checkpoint's saveProgress     *)
(* (fs.writeFileSync) throwing.                                            *)
(***************************************************************************)
SearchTrack(v, saveOk) ==
    /\ pc = "batch"
    /\ i < Len(Batch)
    /\ LET track       == Batch[i + 1]
           globalIndex == startIndex + i
           pushed      == RecordOutcome(mem[1], track, v)
           marked      == SetBatchStart(pushed, globalIndex + 1)
       IN  /\ v \in {Null, VideoOf(track)}
           /\ IF IsCheckpoint(globalIndex)
                THEN IF saveOk
                       THEN /\ mem' = <<marked>>
                            /\ file' = <<marked>>
                       ELSE /\ mem' = <<RecordError(marked, track)>>
                            /\ file' = file
                ELSE /\ saveOk
                     /\ mem' = <<pushed>>
                     /\ file' = file
    /\ i' = i + 1
    /\ UNCHANGED <<playlistTotal, pc, startIndex, batchSize, entry,
                   lastSession, allPositive, buildVars, matchVars, otherSession>>

(***************************************************************************)
(* After the loop: current_batch_start = endIndex, saveProgress, and the   *)
(* final saveProgress of main.  A throwing save ends the process through   *)
(* main's catch (process.exit(1)).                                         *)
(***************************************************************************)
EndBatch(saveOk) ==
    /\ pc = "batch"
    /\ i = Len(Batch)
    /\ LET done == SetBatchStart(mem[1], EndIndex)
       IN  IF saveOk
             THEN /\ file' = <<done>>
                  /\ lastSession' = "complete"
             ELSE /\ file' = file
                  /\ lastSession' = "save failed"
    /\ pc' = "idle"
    /\ mem' = << >>
    /\ UNCHANGED <<playlistTotal, startIndex, batchSize, i, entry, allPositive,
                   buildVars, matchVars, otherSession>>

(***************************************************************************)
(* The process is killed inside the loop: memory is lost, the file stays.  *)
(***************************************************************************)
Interrupt ==
    /\ pc = "batch"
    /\ pc' = "idle"
    /\ mem' = << >>
    /\ lastSession' = "interrupted"
    /\ UNCHANGED <<playlistTotal, file, startIndex, batchSize, i, entry,
                   allPositive, buildVars, matchVars, otherSession>>

(***************************************************************************)
(* The same script started a second time, with another API key, while or   *)
(* after the first runs: the same main and searchTrackBatch, on its own     *)
(* progress object and the same progress file.  The second process runs    *)
(* one session.                                                            *)
(***************************************************************************)
OtherStartSession(b) ==
    /\ otherSession.pc = "idle"
    /\ otherSession.lastSession = "none"
    /\ LET progress  == loadOrCreateProgress
           remaining == Len(allTracks) - progress.progress.tracks_processed
       IN  otherSession' =
             IF remaining = 0
               THEN [NoSession EXCEPT !.lastSession = "nothing to do"]
               ELSE [ pc |-> "batch",
                      mem |-> <<progress>>,
                      startIndex |-> progress.progress.current_batch_start,
                      batchSize |-> b,
                      i |-> 0,
                      lastSession |-> "running" ]
    /\ UNCHANGED <<file, pc, playlistTotal, mem, startIndex, batchSize, i, entry,
                   lastSession, allPositive, buildVars, matchVars>>

OtherSearchTrack(v, saveOk) ==
    /\ otherSession.pc = "batch"
    /\ LET endIndex    == Min(otherSession.startIndex + otherSession.batchSize,
                              Len(allTracks))
           batch       == Slice(allTracks, otherSession.startIndex, endIndex)
           globalIndex == otherSession.startIndex + otherSession.i
       IN  /\ otherSession.i < Len(batch)
           /\ LET track  == batch[otherSession.i + 1]
                  pushed == RecordOutcome(otherSession.mem[1], track, v)
                  marked == SetBatchStart(pushed, globalIndex + 1)
              IN  /\ v \in {Null, VideoOf(track)}
                  /\ IF IsCheckpoint(globalIndex)
                       THEN IF saveOk
                              THEN /\ otherSession' =
                                        [otherSession EXCEPT !.mem = <<marked>>,
                                                             !.i = @ + 1]
                                   /\ file' = <<marked>>
                              ELSE /\ otherSession' =
                                        [otherSession EXCEPT
                                            !.mem = <<RecordError(marked, track)>>,
                                            !.i = @ + 1]
                                   /\ file' = file
                       ELSE /\ saveOk
                            /\ otherSession' =
                                 [otherSession EXCEPT !.mem = <<pushed>>, !.i = @ + 1]
                            /\ file' = file
    /\ UNCHANGED <<pc, playlistTotal, mem, startIndex, batchSize, i, entry,
                   lastSession, allPositive, buildVars, matchVars>>

OtherEndBatch(saveOk) ==
    /\ otherSession.pc = "batch"
    /\ LET endIndex == Min(otherSession.startIndex + otherSession.batchSize,
                           Len(allTracks))
           batch    == Slice(allTracks, otherSession.startIndex, endIndex)
           done     == SetBatchStart(otherSession.mem[1], endIndex)
       IN  /\ otherSession.i = Len(batch)
           /\ file' = IF saveOk THEN <<done>> ELSE file
           /\ otherSession' =
                 [otherSession EXCEPT
                     !.pc = "idle",
                     !.mem = << >>,
                     !.lastSession = IF saveOk THEN "complete" ELSE "save failed"]
    /\ UNCHANGED <<pc, playlistTotal, mem, startIndex, batchSize, i, entry,
                   lastSession, allPositive, buildVars, matchVars>>

(***************************************************************************)
(* Between sessions the playlist gains or loses an item without a valid    *)
(* track: getPlaylist reports another total, getPlaylistTracks the same     *)
(* tracks.                                                                  *)
(***************************************************************************)
PlaylistChanges(total) ==
    /\ pc = "idle"
    /\ total # playlistTotal
    /\ playlistTotal' = total
    /\ UNCHANGED <<file, pc, mem, startIndex, batchSize, i, entry, lastSession,
                   allPositive, buildVars, matchVars, otherSession>>

(***************************************************************************)
(* Strings, as youtubeService uses them.                                   *)
(***************************************************************************)
UpperCaseLetters == "ABCDEFGHIJKLMNOPQRSTUVWXYZ"
LowerCaseLetters == "abcdefghijklmnopqrstuvwxyz"

CharAt(s, k) == SubSeq(s, k, k)

\* String.prototype.toLowerCase
RECURSIVE toLowerCase(_)
toLowerCase(s) ==
    IF Len(s) = 0 THEN s
    ELSE LET c == CharAt(s, 1)
             K == {k \in 1..Len(UpperCaseLetters) : CharAt(UpperCaseLetters, k) = c}
         IN  (IF K = {} THEN c ELSE CharAt(LowerCaseLetters, CHOOSE k \in K : TRUE))
               \o toLowerCase(Tail(s))

\* String.prototype.includes: the empty string is included in every string
includes(s, sub) ==
    \E k \in 0..(Len(s) - Len(sub)) : SubSeq(s, k + 1, k + Len(sub)) = sub

\* String.prototype.split(' ')
RECURSIVE split(_)
split(s) ==
    LET K == {k \in 1..Len(s) : CharAt(s, k) = " "}
    IN  IF K = {} THEN <<s>>
        ELSE LET k == CHOOSE m \in K : \A n \in K : m <= n
             IN  <<SubSeq(s, 1, k - 1)>> \o split(SubSeq(s, k + 1, Len(s)))

\* s.split(' ').filter(word => word.length > 2)
Words(s) == SelectSeq(split(s), LAMBDA word : Len(word) > 2)

\* \s and \d of a regular expression, for the characters of this model
IsSpace(c) == c = " "
IsDigit(c) == \E k \in 1..10 : CharAt("0123456789", k) = c

\* the index after the run of white space that starts at index k
RECURSIVE SkipSpaces(_, _)
SkipSpaces(s, k) ==
    IF k <= Len(s) /\ IsSpace(CharAt(s, k)) THEN SkipSpaces(s, k + 1) ELSE k

\* s has the word lit at index k, compared as the flag i compares
HasAt(s, k, lit) ==
    /\ k >= 1
    /\ k + Len(lit) - 1 <= Len(s)
    /\ toLowerCase(SubSeq(s, k, k + Len(lit) - 1)) = lit

\* the index of the first ")" from index k on, Len(s) + 1 if there is none
RECURSIVE NextClose(_, _)
NextClose(s, k) ==
    IF k > Len(s) \/ CharAt(s, k) = ")" THEN k ELSE NextClose(s, k + 1)

\* String.prototype.trim
RECURSIVE trim(_)
trim(s) ==
    IF Len(s) > 0 /\ IsSpace(CharAt(s, 1)) THEN trim(Tail(s))
    ELSE IF Len(s) > 0 /\ IsSpace(CharAt(s, Len(s)))
           THEN trim(SubSeq(s, 1, Len(s) - 1))
    ELSE s

(***************************************************************************)
(* youtubeService.cleanTrackName.  Each of its regular expressions is an   *)
(* operator that gives, for a start index p, the index after the match     *)
(* that starts at p, or 0 when none starts there.  The titles of this      *)
(* model have "-" as their only dash.                                      *)
(***************************************************************************)
\* /\s*\(?(?:feat\.?|featuring|ft\.?)\s+[^)]*\)?/gi
FeaturedEnd(s, p) ==
    LET a   == SkipSpaces(s, p)
        b   == IF HasAt(s, a, "(") THEN a + 1 ELSE a
        kws == {"feat.", "feat", "featuring", "ft.", "ft"}
        hit == \E kw \in kws :
                  /\ HasAt(s, b, kw)
                  /\ b + Len(kw) <= Len(s)
                  /\ IsSpace(CharAt(s, b + Len(kw)))
        d   == NextClose(s, b)
    IN  IF ~hit THEN 0
        ELSE IF d <= Len(s) THEN d + 1 ELSE d

\* /\s*[-–]\s*.*(?:kws[1]|kws[2]|...)\s*/gi: the greedy .* takes the match
\* to the last place where one of the words begins
DashEnd(s, p, kws) ==
    LET a == SkipSpaces(s, p)
        Q == {q \in (a + 1)..Len(s) : \E k \in DOMAIN kws : HasAt(s, q, kws[k])}
        q == CHOOSE m \in Q : \A n \in Q : n <= m
        k == CHOOSE m \in DOMAIN kws :
                /\ HasAt(s, q, kws[m])
                /\ \A n \in DOMAIN kws : HasAt(s, q, kws[n]) => m <= n
    IN  IF ~HasAt(s, a, "-") \/ Q = {} THEN 0
        ELSE SkipSpaces(s, q + Len(kws[k]))

\* /\s*\(?\d{4}\)?/g
YearEnd(s, p) ==
    LET a == SkipSpaces(s, p)
        b == IF HasAt(s, a, "(") THEN a + 1 ELSE a
    IN  IF b + 3 <= Len(s) /\ \A k \in b..(b + 3) : IsDigit(CharAt(s, k))
          THEN IF HasAt(s, b + 4, ")") THEN b + 5 ELSE b + 4
          ELSE 0

\* /\s*\([^)]*\)/g
ParenthesesEnd(s, p) ==
    LET a == SkipSpaces(s, p)
        d == NextClose(s, a)
    IN  IF HasAt(s, a, "(") /\ d <= Len(s) THEN d + 1 ELSE 0

MatchEnd(re, s, p) ==
    CASE re = "featured"    -> FeaturedEnd(s, p)
      [] re = "remix"       -> DashEnd(s, p, <<"remix", "mix", "version", "edit">>)
      [] re = "remaster"    -> DashEnd(s, p, <<"remaster", "remastered">>)
      [] re = "year"        -> YearEnd(s, p)
      [] re = "parentheses" -> ParenthesesEnd(s, p)

\* s.replace(re, '') with the flag g, from index p on
RECURSIVE replace(_, _, _)
replace(re, s, p) ==
    IF p > Len(s) THEN ""
    ELSE LET e == MatchEnd(re, s, p)
         IN  IF e > p THEN replace(re, s, e)
             ELSE CharAt(s, p) \o replace(re, s, p + 1)

\* s.replace(/\s+/g, ' '), from index p on
RECURSIVE collapse(_, _)
collapse(s, p) ==
    IF p > Len(s) THEN ""
    ELSE IF IsSpace(CharAt(s, p)) THEN " " \o collapse(s, SkipSpaces(s, p))
    ELSE CharAt(s, p) \o collapse(s, p + 1)

cleanTrackName(trackName) ==
    LET featured    == replace("featured", trackName, 1)
        remix       == replace("remix", featured, 1)
        remaster    == replace("remaster", remix, 1)
        year        == replace("year", remaster, 1)
        parentheses == replace("parentheses", year, 1)
    IN  trim(collapse(parentheses, 1))


(***************************************************************************)
(* The matcher: youtubeService.findBestMatch.                              *)
(***************************************************************************)
SpotifyTrack(name, artistNames) ==
    [name |-> name, artists |-> [k \in DOMAIN artistNames |-> [name |-> artistNames[k]]]]

YouTubeVideo(id, title, channelTitle) ==
    [id |-> id, snippet |-> [title |-> title, channelTitle |-> channelTitle]]

\* track.artists[0]?.name.toLowerCase() || ''
ArtistName(t) == IF Len(t.artists) > 0 THEN toLowerCase(t.artists[1].name) ELSE ""

\* the score a video gets in the loop of findBestMatch, without the penalty
\* for covers
ScoreWithoutCoverPenalty(t, video) ==
    LET trackName    == toLowerCase(t.name)
        artistName   == ArtistName(t)
        videoTitle   == toLowerCase(video.snippet.title)
        channelTitle == toLowerCase(video.snippet.channelTitle)
        trackWords   == Words(trackName)
        artistWords  == Words(artistName)
    IN  (IF includes(videoTitle, trackName) THEN 3 ELSE 0)
      + (IF includes(videoTitle, artistName) THEN 3 ELSE 0)
      + Cardinality({k \in DOMAIN trackWords : includes(videoTitle, trackWords[k])})
      + Cardinality({k \in DOMAIN artistWords :
                        \/ includes(videoTitle, artistWords[k])
                        \/ includes(channelTitle, artistWords[k])})
      + (IF includes(videoTitle, "official") THEN 2 ELSE 0)
      + (IF includes(channelTitle, artistName) THEN 2 ELSE 0)
      - (IF includes(videoTitle, "live") THEN 1 ELSE 0)
      - (IF includes(videoTitle, "karaoke") THEN 3 ELSE 0)
      + (IF includes(channelTitle, "official") \/ includes(channelTitle, "records")
           THEN 1 ELSE 0)

\* the score a video gets in the loop of findBestMatch
Score(t, video) ==
    LET trackName    == toLowerCase(t.name)
        artistName   == ArtistName(t)
        videoTitle   == toLowerCase(video.snippet.title)
        channelTitle == toLowerCase(video.snippet.channelTitle)
        trackWords   == Words(trackName)
        artistWords  == Words(artistName)
    IN  (IF includes(videoTitle, trackName) THEN 3 ELSE 0)
      + (IF includes(videoTitle, artistName) THEN 3 ELSE 0)
      + Cardinality({k \in DOMAIN trackWords : includes(videoTitle, trackWords[k])})
      + Cardinality({k \in DOMAIN artistWords :
                        \/ includes(videoTitle, artistWords[k])
                        \/ includes(channelTitle, artistWords[k])})
      + (IF includes(videoTitle, "official") THEN 2 ELSE 0)
      + (IF includes(channelTitle, artistName) THEN 2 ELSE 0)
      - (IF includes(videoTitle, "live") THEN 1 ELSE 0)
      - (IF includes(videoTitle, "cover") THEN 2 ELSE 0)
      - (IF includes(videoTitle, "karaoke") THEN 3 ELSE 0)
      + (IF includes(channelTitle, "official") \/ includes(channelTitle, "records")
           THEN 1 ELSE 0)

\* the tracks and the videos of this model
NoTrack == SpotifyTrack("", << >>)

Tracks ==
    { SpotifyTrack("Song", <<"Artist">>),
      SpotifyTrack("My Song", <<"The Artist">>),
      SpotifyTrack("Song", << >>),
      SpotifyTrack("", << >>),
      SpotifyTrack("Song (feat. X) - 2020 Remix", <<"Artist">>) }

Videos ==
    { YouTubeVideo(1, "Artist - Song (Official Video)", "Artist"),
      YouTubeVideo(2, "Random Coffee Shop Cover", "Coffee Shop"),
      YouTubeVideo(3, "Song", "Somebody"),
      YouTubeVideo(4, "Song Karaoke", "Karaoke Records"),
      YouTubeVideo(5, "Other Tune", "Somebody"),
      YouTubeVideo(6, "Random Coffee Shop Cover", "Artist Official"),
      YouTubeVideo(7, "Song Remix Concert Instrumental", "Records") }

\* the scores of the loop of findBestMatch, computed once
Scores == [t \in Tracks, video \in Videos |-> Score(t, video)]

\* a loop that replaces the best video on an equal score
RECURSIVE ScanVideosLastWins(_, _, _, _)
ScanVideosLastWins(t, vs, k, best) ==
    IF k > Len(vs) THEN best
    ELSE LET score == Scores[t, vs[k]]
         IN  ScanVideosLastWins(t, vs, k + 1,
                                IF score >= best.bestScore
                                  THEN [bestVideo |-> <<vs[k]>>, bestScore |-> score]
                                  ELSE best)

findBestMatchLastWins(t, vs) ==
    IF Len(vs) = 0 THEN << >>
    ELSE LET best == ScanVideosLastWins(t, vs, 1,
                                        [bestVideo |-> << >>, bestScore |-> 0])
         IN  IF best.bestScore >= 2 THEN best.bestVideo ELSE << >>

\* the loop of findBestMatch from video k on
RECURSIVE ScanVideos(_, _, _, _)
ScanVideos(t, vs, k, best) ==
    IF k > Len(vs) THEN best
    ELSE LET score == Scores[t, vs[k]]
         IN  ScanVideos(t, vs, k + 1,
                        IF score > best.bestScore
                          THEN [bestVideo |-> <<vs[k]>>, bestScore |-> score]
                          ELSE best)

\* findBestMatch: << >> is null
findBestMatch(t, vs) ==
    IF Len(vs) = 0 THEN << >>
    ELSE LET best == ScanVideos(t, vs, 1, [bestVideo |-> << >>, bestScore |-> 0])
         IN  IF best.bestScore >= 2 THEN best.bestVideo ELSE << >>

\* the lists of items a search response can hold
VideoLists == UNION {[1..n -> Videos] : n \in 0..MaxCandidates}

\* what searchVideos ends with: the items of the response, or a throw
SearchFailure == [ok |-> FALSE, items |-> << >>]
SearchResponses == {SearchFailure} \cup {[ok |-> TRUE, items |-> vs] : vs \in VideoLists}

(***************************************************************************)
(* youtubeService.generateSearchQueries                                     *)
(***************************************************************************)
\* the array queries, before duplicates and blanks are removed
QueryCandidates(t) ==
    LET trackName      == t.name
        artistName     == IF Len(t.artists) > 0 THEN t.artists[1].name ELSE ""
        cleanTrackName_ == cleanTrackName(trackName)
    IN  << artistName \o " " \o cleanTrackName_ \o " official",
           artistName \o " " \o cleanTrackName_ \o " official audio",
           artistName \o " " \o cleanTrackName_ \o " official video",
           artistName \o " " \o cleanTrackName_,
           trackName \o " " \o artistName,
           cleanTrackName_ \o " " \o artistName,
           "\"" \o artistName \o "\" \"" \o cleanTrackName_ \o "\"" >>

\* [...new Set(qs)]: the first occurrence of every string, in order
RECURSIVE Distinct(_, _)
Distinct(qs, k) ==
    IF k > Len(qs) THEN << >>
    ELSE (IF \E n \in 1..(k - 1) : qs[n] = qs[k] THEN << >> ELSE <<qs[k]>>)
           \o Distinct(qs, k + 1)

\* a list from which only the blanks are removed
generateSearchQueriesWithDuplicates(t) ==
    SelectSeq(QueryCandidates(t), LAMBDA q : Len(trim(q)) > 0)

generateSearchQueries(t) ==
    SelectSeq(Distinct(QueryCandidates(t), 1), LAMBDA q : Len(trim(q)) > 0)

\* computed once for the tracks of this model
SearchQueries == [t \in Tracks |-> generateSearchQueries(t)]

(***************************************************************************)
(* youtubeService.searchVideo                                              *)
(***************************************************************************)
MatchIdle ==
    /\ searchPc = "idle"
    /\ spotifyTrack = NoTrack
    /\ queries = << >>
    /\ videos = << >>
    /\ bestMatch = << >>
    /\ found = << >>
    /\ issued = << >>
    /\ outcomes = << >>
    /\ searchResult = << >>
    /\ findMatches = NoMatching
    /\ conversion = NoConversion
    /\ retrying = NoRetrying
    /\ oauth = NoProcess

\* the call, up to the first query
StartSearchVideo(t) ==
    /\ searchPc \in {"idle", "returned"}
    /\ searchPc' = "searching"
    /\ spotifyTrack' = t
    /\ queries' = SearchQueries[t]
    /\ videos' = << >>
    /\ bestMatch' = << >>
    /\ found' = << >>
    /\ issued' = << >>
    /\ outcomes' = << >>
    /\ searchResult' = << >>
    /\ UNCHANGED <<serviceVars, file, pc, searchVars, buildVars>>

\* an iteration without the try of searchVideo around it: the error of a
\* failed request reaches the caller
SearchQueryThrowing(response) ==
    /\ searchPc = "searching"
    /\ Len(issued) < Len(queries)
    /\ issued' = Append(issued, queries[Len(issued) + 1])
    /\ IF ~response.ok
         THEN /\ outcomes' = Append(outcomes, "failed")
              /\ searchPc' = "threw"
              /\ found' = << >>
              /\ UNCHANGED <<videos, bestMatch>>
         ELSE /\ videos' = response.items
              /\ bestMatch' = IF Len(response.items) > 0
                                THEN findBestMatch(spotifyTrack, response.items)
                                ELSE << >>
              /\ IF bestMatch' # << >>
                   THEN /\ outcomes' = Append(outcomes, "accepted")
                        /\ searchPc' = "returned"
                        /\ found' = bestMatch'
                   ELSE /\ outcomes' = Append(outcomes, "no match")
                        /\ UNCHANGED <<searchPc, found>>
    /\ UNCHANGED <<serviceVars, file, pc, searchVars, buildVars, spotifyTrack, queries,
                   searchResult>>

\* one iteration of the loop over the queries.  searchVideos rethrows the
\* error of a failed request; the loop is inside the try of searchVideo, so
\* the throw leaves the loop and the catch block returns null.
SearchQuery(response) ==
    /\ searchPc = "searching"
    /\ Len(issued) < Len(queries)
    /\ issued' = Append(issued, queries[Len(issued) + 1])
    /\ IF ~response.ok
         THEN /\ outcomes' = Append(outcomes, "failed")
              /\ searchPc' = "returned"
              /\ found' = << >>
              /\ UNCHANGED <<videos, bestMatch>>
         ELSE /\ videos' = response.items
              /\ bestMatch' = IF Len(response.items) > 0
                                THEN findBestMatch(spotifyTrack, response.items)
                                ELSE << >>
              /\ IF bestMatch' # << >>
                   THEN /\ outcomes' = Append(outcomes, "accepted")
                        /\ searchPc' = "returned"
                        /\ found' = bestMatch'
                   ELSE /\ outcomes' = Append(outcomes, "no match")
                        /\ UNCHANGED <<searchPc, found>>
    /\ UNCHANGED <<serviceVars, file, pc, searchVars, buildVars, spotifyTrack, queries,
                   searchResult>>

\* after the loop: return null
ReturnNull ==
    /\ searchPc = "searching"
    /\ Len(issued) = Len(queries)
    /\ searchPc' = "returned"
    /\ found' = << >>
    /\ UNCHANGED <<serviceVars, file, pc, searchVars, buildVars, spotifyTrack, queries, videos,
                   bestMatch, issued, outcomes, searchResult>>

(***************************************************************************)
(* The confidence of a match.  The code computes it in floating point from *)
(* multiples of 0.1; here it is counted in tenths, 10 being 1.0.           *)
(***************************************************************************)
\* the confidence before Math.max(0, Math.min(1, confidence))
RawMatchConfidence(t, video) ==
    LET trackName    == toLowerCase(t.name)
        artistName   == ArtistName(t)
        videoTitle   == toLowerCase(video.snippet.title)
        channelTitle == toLowerCase(video.snippet.channelTitle)
    IN  5
      + (IF includes(videoTitle, trackName) THEN 3 ELSE 0)
      + (IF includes(videoTitle, artistName) \/ includes(channelTitle, artistName)
           THEN 2 ELSE 0)
      + (IF \/ videoTitle = artistName \o " " \o trackName
            \/ videoTitle = trackName \o " " \o artistName
           THEN 2 ELSE 0)
      + (IF includes(videoTitle, "official") THEN 1 ELSE 0)
      + (IF includes(channelTitle, artistName) THEN 1 ELSE 0)
      - (IF includes(videoTitle, "cover") \/ includes(videoTitle, "remix")
           THEN 2 ELSE 0)
      - (IF includes(videoTitle, "live") \/ includes(videoTitle, "concert")
           THEN 1 ELSE 0)
      - (IF includes(videoTitle, "karaoke") \/ includes(videoTitle, "instrumental")
           THEN 3 ELSE 0)

\* a confidence that is returned as it was summed up
calculateMatchConfidenceUnclamped(t, video) == RawMatchConfidence(t, video)

\* search-tracks.ts calculateMatchConfidence
calculateMatchConfidence(t, video) == Max(0, Min(10, RawMatchConfidence(t, video)))

\* youtubeService.calculateConfidence: Math.min(confidence, 1.0)
calculateConfidence(t, video) ==
    LET trackName    == toLowerCase(t.name)
        artistName   == ArtistName(t)
        videoTitle   == toLowerCase(video.snippet.title)
        channelTitle == toLowerCase(video.snippet.channelTitle)
    IN  Min(5 + (IF includes(videoTitle, trackName) THEN 3 ELSE 0)
              + (IF \/ includes(videoTitle, artistName)
                    \/ includes(channelTitle, artistName)
                   THEN 2 ELSE 0)
              + (IF includes(videoTitle, "official") THEN 1 ELSE 0),
            10)

\* both, computed once for the tracks and videos of this model
MatchConfidences ==
    [t \in Tracks, video \in Videos |-> calculateMatchConfidence(t, video)]

Confidences == [t \in Tracks, video \in Videos |-> calculateConfidence(t, video)]

(***************************************************************************)
(* The callers of searchVideo.                                              *)
(***************************************************************************)
\* searchTrackBatch: confidence and searchResult, for the video searchVideo
\* returned (<< >> is null)
TrackSearchResultOf(t, youtubeVideo) ==
    [ spotify_track |-> t,
      youtube_video |-> youtubeVideo,
      confidence |-> IF youtubeVideo # << >>
                       THEN MatchConfidences[t, youtubeVideo[1]] ELSE 0,
      search_queries_tried |-> << >> ]

\* findMatchesForTracks: the mapping of one track, << >> is null
TrackMapping(t, youtubeVideo) ==
    IF youtubeVideo # << >>
      THEN << [ spotifyTrack |-> t,
                youtubeVideo |-> youtubeVideo[1],
                confidence |-> Confidences[t, youtubeVideo[1]] ] >>
      ELSE << >>

\* searchTrackBatch, the try block after searchVideo has returned
RecordSearchResult ==
    /\ searchPc = "returned"
    /\ searchResult = << >>
    /\ searchResult' = << [ by |-> "searchTrackBatch",
                            value |-> <<TrackSearchResultOf(spotifyTrack, found)>> ] >>
    /\ UNCHANGED <<serviceVars, file, pc, searchVars, buildVars, searchPc, spotifyTrack, queries,
                   videos, bestMatch, found, issued, outcomes>>

\* findMatchesForTracks, the callback of batch.map after searchVideo has
\* returned
MapTrack ==
    /\ searchPc = "returned"
    /\ searchResult = << >>
    /\ searchResult' = << [ by |-> "findMatchesForTracks",
                            value |-> TrackMapping(spotifyTrack, found) ] >>
    /\ UNCHANGED <<serviceVars, file, pc, searchVars, buildVars, searchPc, spotifyTrack, queries,
                   videos, bestMatch, found, issued, outcomes>>

(***************************************************************************)
(* The add capability: youtubeService.addVideoToPlaylist.                   *)
(***************************************************************************)
\* what axios.post ends with: an HTTP status (0: no response at all), the
\* reason of the first error of the body, the code of a network error
Response(status, reason, code) ==
    [status |-> status, reason |-> reason, code |-> code]

Ok            == Response(200, "", "")
NotFound      == Response(404, "", "")
NotAccessible == Response(403, "playlistItemsNotAccessible", "")
ServerError   == Response(500, "", "")

\* the responses YouTube gives in this model
AddResponses == {Ok, NotFound, NotAccessible, ServerError}

\* a catch block that has one kind for everything but a 404
ErrorTypeUnclassified(r) == IF r.status = 404 THEN "VIDEO_NOT_FOUND" ELSE "ERROR"

\* the catch block of addVideoToPlaylist: error category -> errorType
ErrorType(r) ==
    IF r.status # 0
      THEN CASE r.status = 403 ->
                  IF r.reason # ""
                    THEN CASE r.reason = "playlistItemsNotAccessible" ->
                                "VIDEO_PRIVATE_OR_DELETED"
                           [] r.reason = "videoNotFound" -> "VIDEO_NOT_FOUND"
                           [] r.reason = "forbidden" -> "VIDEO_EMBEDDING_DISABLED"
                           [] r.reason = "quotaExceeded" -> "QUOTA_EXCEEDED"
                           [] OTHER -> "FORBIDDEN_OTHER"
                    ELSE "FORBIDDEN_GENERIC"
             [] r.status = 404 -> "VIDEO_NOT_FOUND"
             [] r.status = 400 -> "BAD_REQUEST"
             [] OTHER -> "HTTP_ERROR"
      ELSE IF r.code \in {"ENOTFOUND", "ECONNREFUSED"}
             THEN "NETWORK_ERROR"
             ELSE "UNKNOWN"

\* every errorType addVideoToPlaylist and createPlaylistFromResults assign
ErrorTypes ==
    { "VIDEO_PRIVATE_OR_DELETED", "VIDEO_NOT_FOUND", "VIDEO_EMBEDDING_DISABLED",
      "QUOTA_EXCEEDED", "FORBIDDEN_OTHER", "FORBIDDEN_GENERIC", "BAD_REQUEST",
      "HTTP_ERROR", "NETWORK_ERROR", "UNKNOWN", "UNEXPECTED_ERROR" }

\* the message that goes with the errorType
ErrorMessage(r) ==
    CASE ErrorType(r) = "VIDEO_PRIVATE_OR_DELETED" ->
            "Video is private, deleted, or not accessible"
      [] ErrorType(r) = "VIDEO_NOT_FOUND" -> "Video not found or has been deleted"
      [] OTHER -> "other"

addVideoToPlaylist(videoId) ==
    LET r == IF videoId \in DOMAIN youtube THEN youtube[videoId] ELSE Ok
    IN  IF r.status \in 200..299
          THEN [success |-> TRUE]
          ELSE [ success |-> FALSE, error |-> ErrorMessage(r),
                 errorType |-> ErrorType(r) ]

(***************************************************************************)
(* Records of the build phase.                                             *)
(***************************************************************************)
\* a / b as JavaScript computes it, kept exact: the fraction in lowest terms
\* (<<0, 0>> is NaN, <<1, 0>> is Infinity)
RECURSIVE GCD(_, _)
GCD(a, b) == IF b = 0 THEN a ELSE GCD(b, a % b)

Divide(a, b) ==
    IF b = 0
      THEN <<IF a = 0 THEN 0 ELSE 1, 0>>
      ELSE <<a \div GCD(a, b), b \div GCD(a, b)>>

\* interface TrackFailure of create-playlist
TrackFailure(trackResult, error, errorType) ==
    [track |-> trackResult, error |-> error, errorType |-> errorType]

\* a count that is set to 1 instead of incremented
CountFailureOnce(breakdown, k) == (k :> 1) @@ breakdown

\* failureBreakdown[k] = (failureBreakdown[k] || 0) + 1
CountFailure(breakdown, k) ==
    IF k \in DOMAIN breakdown
      THEN [breakdown EXCEPT ![k] = @ + 1]
      ELSE (k :> 1) @@ breakdown

\* the {} of JavaScript
EmptyObject == [k \in {} |-> 0]

\* the playlist youtubeService.createPlaylist returns
YoutubePlaylist == [id |-> "PL"]

\* { ...progress, playlist_creation: result } of savePlaylistResult and
\* progress.playlist_creation = updatedResult of saveUpdatedResult
WithCreation(progress, result) == ("playlist_creation" :> result) @@ progress

HasVideo(trackResult) == trackResult.youtube_video # Null

\* a filter that keeps every result
TracksUnfiltered(tracks) == tracks

\* progress.tracks.filter(track => track.youtube_video !== null)
RECURSIVE TracksWithMatches(_)
TracksWithMatches(tracks) ==
    IF tracks = << >> THEN << >>
    ELSE IF HasVideo(Head(tracks))
           THEN <<Head(tracks)>> \o TracksWithMatches(Tail(tracks))
           ELSE TracksWithMatches(Tail(tracks))

\* a read of a property the object does not have gives undefined
Has(object, key) == key \in DOMAIN object

NoJob == [kind |-> "none"]

(***************************************************************************)
(* create-playlist: main up to the first add of createPlaylistFromResults. *)
(* A missing progress file, an empty results list and a list without any   *)
(* match each throw and end the run in main's catch.                       *)
(***************************************************************************)
\* a start that throws only for a missing file and an empty results list
BuildAbortsWithoutResults == file = << >> \/ file[1].tracks = << >>

\* create-playlist main: the test before its "Search is not complete" warning
SearchIncomplete(progress) ==
    progress.progress.tracks_processed < progress.spotify_playlist.total_tracks

\* the throws of loadSearchProgress and of createPlaylistFromResults
BuildAborts ==
    \/ file = << >>
    \/ file[1].tracks = << >>
    \/ Len(TracksWithMatches(file[1].tracks)) = 0

BuildStart ==
    /\ pc = "idle"
    /\ addLog' = << >>
    /\ IF BuildAborts
         THEN /\ lastRun' = "build aborted"
              /\ job' = NoJob
              /\ pc' = "idle"
         ELSE /\ lastRun' = "running"
              /\ pc' = "build"
              /\ job' = [ kind |-> "build",
                          progress |-> file[1],
                          tracksWithMatches |-> TracksWithMatches(file[1].tracks),
                          youtubePlaylist |-> YoutubePlaylist,
                          tracksAdded |-> << >>,
                          tracksFailed |-> << >>,
                          failureBreakdown |-> EmptyObject,
                          quotaUsed |-> PlaylistCreationCost,
                          i |-> 0 ]
    /\ UNCHANGED <<file, searchVars, matchVars, youtube, resultFile, resultBy>>

\* a loop body that goes on to the next item without recording a failure
BuildRecordAddDroppingFailure(j, trackResult, result) ==
    IF result.success
      THEN [ j EXCEPT !.tracksAdded = Append(@, trackResult),
                      !.quotaUsed = @ + AddCost,
                      !.i = @ + 1 ]
      ELSE [j EXCEPT !.i = @ + 1]

\* the body of the add loop of createPlaylistFromResults, for the result of
\* addVideoToPlaylist
BuildRecordAdd(j, trackResult, result) ==
    IF result.success
      THEN [ j EXCEPT !.tracksAdded = Append(@, trackResult),
                      !.quotaUsed = @ + AddCost,
                      !.i = @ + 1 ]
      ELSE [ j EXCEPT !.tracksFailed =
                          Append(@, TrackFailure(trackResult, result.error,
                                                 result.errorType)),
                      !.failureBreakdown = CountFailure(@, result.errorType),
                      !.i = @ + 1 ]

\* an iteration that saves the result so far after its add
BuildAddSavingEachAdd ==
    /\ pc = "build"
    /\ job.i < Len(job.tracksWithMatches)
    /\ LET trackResult == job.tracksWithMatches[job.i + 1]
           videoId     == trackResult.youtube_video
       IN  /\ job' = BuildRecordAdd(job, trackResult, addVideoToPlaylist(videoId))
           /\ addLog' = Append(addLog, videoId)
    /\ resultFile' = <<WithCreation(job.progress,
                         [ youtube_playlist |-> job.youtubePlaylist,
                           tracks_added |-> job'.tracksAdded,
                           tracks_failed |-> job'.tracksFailed ])>>
    /\ UNCHANGED <<file, pc, searchVars, matchVars, youtube, lastRun, resultBy>>

(***************************************************************************)
(* One iteration of the add loop of createPlaylistFromResults.             *)
(***************************************************************************)
BuildAdd ==
    /\ pc = "build"
    /\ job.i < Len(job.tracksWithMatches)
    /\ LET trackResult == job.tracksWithMatches[job.i + 1]
           videoId     == trackResult.youtube_video
       IN  /\ job' = BuildRecordAdd(job, trackResult, addVideoToPlaylist(videoId))
           /\ addLog' = Append(addLog, videoId)
    /\ UNCHANGED <<file, pc, searchVars, matchVars, youtube, resultFile,
                   lastRun, resultBy>>

\* a result whose success rate is taken over all searched tracks
BuildResultOverAllTracks(j) ==
    [ youtube_playlist |-> j.youtubePlaylist,
      tracks_added |-> j.tracksAdded,
      tracks_failed |-> j.tracksFailed,
      creation_stats |->
          [ quota_used |-> j.quotaUsed,
            success_rate |-> Divide(Len(j.tracksAdded), Len(j.progress.tracks)),
            failure_breakdown |-> j.failureBreakdown ] ]

\* the PlaylistCreationResult createPlaylistFromResults returns
BuildResult(j) ==
    [ youtube_playlist |-> j.youtubePlaylist,
      tracks_added |-> j.tracksAdded,
      tracks_failed |-> j.tracksFailed,
      creation_stats |->
          [ quota_used |-> j.quotaUsed,
            success_rate |-> Divide(Len(j.tracksAdded), Len(j.tracksWithMatches)),
            failure_breakdown |-> j.failureBreakdown ] ]

(***************************************************************************)
(* After the add loop: the result is returned and savePlaylistResult       *)
(* writes the result file; a throwing write ends the run in main's catch.  *)
(***************************************************************************)
BuildFinish(saveOk) ==
    /\ pc = "build"
    /\ job.i = Len(job.tracksWithMatches)
    /\ pc' = "idle"
    /\ IF saveOk
         THEN /\ resultFile' = <<WithCreation(job.progress, BuildResult(job))>>
              /\ resultBy' = "build"
              /\ lastRun' = "build complete"
         ELSE /\ UNCHANGED <<resultFile, resultBy>>
              /\ lastRun' = "build save failed"
    /\ UNCHANGED <<file, searchVars, matchVars, youtube, job, addLog>>

\* loadPlaylistResult: which of its branches the result file takes
LoadBranch ==
    IF resultFile = << >> THEN "missing"
    ELSE IF Has(resultFile[1], "playlist_creation")
           THEN IF Has(resultFile[1].playlist_creation, "tracks_failed")
                  THEN "nested" ELSE "no failed list"
    ELSE IF Has(resultFile[1], "tracks_added") /\ Has(resultFile[1], "tracks_failed")
           THEN "root"
    ELSE "unrecognised"

\* loadPlaylistResult: the result it returns
LoadedResult ==
    IF LoadBranch = "nested"
      THEN resultFile[1].playlist_creation
      ELSE [ youtube_playlist |-> resultFile[1].youtube_playlist,
             tracks_added |-> resultFile[1].tracks_added,
             tracks_failed |-> resultFile[1].tracks_failed,
             creation_stats |-> resultFile[1].creation_stats ]

(***************************************************************************)
(* retry-failed: main up to the first iteration of retryFailedTracks.  A   *)
(* result file that is missing or has neither layout throws; an empty      *)
(* tracks_failed list returns before anything is attempted.                *)
(***************************************************************************)
RetryStart ==
    /\ pc = "idle"
    /\ addLog' = << >>
    /\ IF LoadBranch \notin {"nested", "root"}
         THEN /\ lastRun' = "retry aborted"
              /\ job' = NoJob
              /\ pc' = "idle"
         ELSE LET retry == [ kind |-> "retry",
                             progress |-> resultFile[1],
                             result |-> LoadedResult,
                             loadedBy |-> resultBy,
                             failedTracks |-> LoadedResult.tracks_failed,
                             newlyAdded |-> << >>,
                             stillFailed |-> << >>,
                             quotaUsed |-> 0,
                             i |-> 0 ]
              IN  /\ job' = retry
                  /\ IF Len(LoadedResult.tracks_failed) = 0
                       THEN /\ lastRun' = "nothing to retry"
                            /\ pc' = "idle"
                       ELSE /\ lastRun' = "running"
                            /\ pc' = "retry"
    /\ UNCHANGED <<file, searchVars, matchVars, youtube, resultFile, resultBy>>

\* the body of the loop of retryFailedTracks, for the result of
\* addVideoToPlaylist
RetryRecordAdd(j, trackResult, result) ==
    IF result.success
      THEN [ j EXCEPT !.newlyAdded = Append(@, trackResult),
                      !.quotaUsed = @ + AddCost,
                      !.i = @ + 1 ]
      ELSE [ j EXCEPT !.stillFailed = Append(@, trackResult),
                      !.i = @ + 1 ]

\* retryFailedTracks reads trackResult.spotify_track and .youtube_video and
\* dereferences both before its try block: an entry without them throws a
\* TypeError out of retryFailedTracks
Dereferences(trackResult) ==
    /\ Has(trackResult, "spotify_track")
    /\ Has(trackResult, "youtube_video")
    /\ trackResult.youtube_video # Null

(***************************************************************************)
(* One iteration of the loop of retryFailedTracks.  The TypeError of an    *)
(* entry that is no TrackSearchResult ends the run in main's catch, with   *)
(* nothing saved.                                                          *)
(***************************************************************************)
RetryTrack ==
    /\ pc = "retry"
    /\ job.i < Len(job.failedTracks)
    /\ LET trackResult == job.failedTracks[job.i + 1]
       IN  IF Dereferences(trackResult)
             THEN /\ job' = RetryRecordAdd(job, trackResult,
                                addVideoToPlaylist(trackResult.youtube_video))
                  /\ addLog' = Append(addLog, trackResult.youtube_video)
                  /\ UNCHANGED <<pc, lastRun>>
             ELSE /\ pc' = "idle"
                  /\ lastRun' = "retry crashed"
                  /\ UNCHANGED <<job, addLog>>
    /\ UNCHANGED <<file, searchVars, matchVars, youtube, resultFile, resultBy>>

\* an update that keeps only the newly added tracks
UpdatedResultDroppingAdded(j) ==
    [ youtube_playlist |-> j.result.youtube_playlist,
      tracks_added |-> j.newlyAdded,
      tracks_failed |-> j.stillFailed,
      creation_stats |->
          [ quota_used |-> j.result.creation_stats.quota_used + j.quotaUsed,
            success_rate |->
                Divide(Len(j.result.tracks_added) + Len(j.newlyAdded),
                       Len(j.result.tracks_added) + Len(j.result.tracks_failed)),
            failure_breakdown |-> EmptyObject ] ]

\* updatedResult of retry-failed's main
UpdatedResult(j) ==
    [ youtube_playlist |-> j.result.youtube_playlist,
      tracks_added |-> j.result.tracks_added \o j.newlyAdded,
      tracks_failed |-> j.stillFailed,
      creation_stats |->
          [ quota_used |-> j.result.creation_stats.quota_used + j.quotaUsed,
            success_rate |->
                Divide(Len(j.result.tracks_added) + Len(j.newlyAdded),
                       Len(j.result.tracks_added) + Len(j.result.tracks_failed)),
            failure_breakdown |-> EmptyObject ] ]

(***************************************************************************)
(* After the loop of retryFailedTracks: main builds updatedResult and       *)
(* saveUpdatedResult writes the result file.                                *)
(***************************************************************************)
RetryFinish(saveOk) ==
    /\ pc = "retry"
    /\ job.i = Len(job.failedTracks)
    /\ pc' = "idle"
    /\ IF saveOk
         THEN /\ resultFile' = <<WithCreation(job.progress, UpdatedResult(job))>>
              /\ resultBy' = "retry"
              /\ lastRun' = "retry complete"
         ELSE /\ UNCHANGED <<resultFile, resultBy>>
              /\ lastRun' = "retry save failed"
    /\ UNCHANGED <<file, searchVars, matchVars, youtube, job, addLog>>

(***************************************************************************)
(* The build or retry process is killed inside its loop.                   *)
(***************************************************************************)
KillRun ==
    /\ pc \in {"build", "retry"}
    /\ pc' = "idle"
    /\ lastRun' = "killed"
    /\ UNCHANGED <<file, searchVars, matchVars, youtube, resultFile, job,
                   addLog, resultBy>>

(***************************************************************************)
(* Between runs a video that could not be added becomes addable.           *)
(***************************************************************************)
Repair(v) ==
    /\ pc = "idle"
    /\ v \in DOMAIN youtube
    /\ youtube' = [w \in DOMAIN youtube \ {v} |-> youtube[w]]
    /\ UNCHANGED <<file, pc, searchVars, matchVars, resultFile, job, addLog,
                   lastRun, resultBy>>

(***************************************************************************)
(* youtubeService.findMatchesForTracks.  The tracks are 1..n; each search  *)
(* of a batch is a promise of its own, started by batch.map behind a timer *)
(* of index * 300 ms, and Promise.all waits for all of them.  searchVideo  *)
(* never rejects, so Promise.all never does.                               *)
(***************************************************************************)
\* batch = tracks.slice(i, i + batchSize), as indices
BatchOf(fm) == [p \in 1..(Min(fm.i + MatchBatchSize, fm.n) - fm.i) |-> fm.i + p]

\* the mapping of a track whose video was found (its confidence is that of
\* calculateConfidence)
Mapping(k) == [spotifyTrack |-> k, youtubeVideo |-> VideoOf(k)]

\* results taken in the order in which the searches completed
BatchResultsAsCompleted(fm) == fm.completed

\* batchResults of Promise.all: one entry per promise, in the order of the
\* promises
BatchResults(fm) == BatchOf(fm)

\* validMappings
ValidMappings(fm) ==
    LET found_ == SelectSeq(BatchResults(fm), LAMBDA k : fm.status[k] = "found")
    IN  [p \in DOMAIN found_ |-> Mapping(found_[p])]

\* the statuses when the loop body starts the promises of the batch at i
StartBatch(fm) ==
    [ fm EXCEPT !.completed = << >>,
                !.status = [ k \in DOMAIN @ |->
                               IF k > fm.i /\ k <= fm.i + MatchBatchSize
                                 THEN "timer" ELSE @[k] ] ]

FindMatchesStart(n) ==
    /\ findMatches.pc \in {"idle", "returned"}
    /\ findMatches' =
          IF n = 0
            THEN [NoMatching EXCEPT !.pc = "returned"]
            ELSE StartBatch([ pc |-> "batch", n |-> n, i |-> 0,
                              status |-> [k \in 1..n |-> "waiting"],
                              completed |-> << >>, mappings |-> << >> ])
    /\ UNCHANGED <<file, pc, searchVars, buildVars, searchVideoVars, conversion, retrying,
                   oauth>>

\* the timer of one promise fires and it calls searchVideo; the timers of a
\* batch are 0, 300 and 600 ms and fire in that order
TimerFires(k) ==
    /\ findMatches.pc = "batch"
    /\ k \in DOMAIN findMatches.status
    /\ findMatches.status[k] = "timer"
    /\ \A m \in 1..(k - 1) : findMatches.status[m] # "timer"
    /\ findMatches' = [findMatches EXCEPT !.status[k] = "searching"]
    /\ UNCHANGED <<file, pc, searchVars, buildVars, searchVideoVars, conversion, retrying,
                   oauth>>

\* the searchVideo of one promise resolves, to a video or to null
SearchCompletes(k, isFound) ==
    /\ findMatches.pc = "batch"
    /\ k \in DOMAIN findMatches.status
    /\ findMatches.status[k] = "searching"
    /\ findMatches' =
          [findMatches EXCEPT !.status[k] = IF isFound THEN "found" ELSE "absent",
                              !.completed = Append(@, k)]
    /\ UNCHANGED <<file, pc, searchVars, buildVars, searchVideoVars, conversion, retrying,
                   oauth>>

\* Promise.all resolves: the valid mappings are pushed and the loop goes on
\* with the next batch or ends
AwaitAll ==
    /\ findMatches.pc = "batch"
    /\ \A p \in DOMAIN BatchOf(findMatches) :
          findMatches.status[BatchOf(findMatches)[p]] \in {"found", "absent"}
    /\ LET pushed == [findMatches EXCEPT
                         !.mappings = @ \o ValidMappings(findMatches),
                         !.i = @ + MatchBatchSize]
       IN  findMatches' = IF pushed.i < pushed.n
                            THEN StartBatch(pushed)
                            ELSE [pushed EXCEPT !.pc = "returned"]
    /\ UNCHANGED <<file, pc, searchVars, buildVars, searchVideoVars, conversion, retrying,
                   oauth>>

(***************************************************************************)
(* convertPlaylist, step 4: the videos of the track mappings 1..n are      *)
(* added to the new playlist.                                              *)
(***************************************************************************)
\* ToBoolean of the value addVideoToPlaylist resolves to: it is an object,
\* and an object is truthy whatever its fields hold
ToBoolean(result) == TRUE

ConvertStart(n) ==
    /\ conversion.pc \in {"idle", "returned"}
    /\ conversion' = [ pc |-> "adding", n |-> n, i |-> 0, addedCount |-> 0,
                       succeeded |-> 0 ]
    /\ UNCHANGED <<file, pc, searchVars, buildVars, searchVideoVars, findMatches, retrying,
                   oauth>>

\* one iteration of the loop: if (success) addedCount++
ConvertAdd ==
    /\ conversion.pc = "adding"
    /\ conversion.i < conversion.n
    /\ LET success == addVideoToPlaylist(VideoOf(conversion.i + 1))
       IN  conversion' =
             [ conversion EXCEPT
                 !.addedCount = IF ToBoolean(success) THEN @ + 1 ELSE @,
                 !.succeeded = IF success.success THEN @ + 1 ELSE @,
                 !.i = @ + 1 ]
    /\ UNCHANGED <<file, pc, searchVars, buildVars, searchVideoVars, findMatches, retrying,
                   oauth>>

\* after the loop: addedCount is reported and the result returned
ConvertFinish ==
    /\ conversion.pc = "adding"
    /\ conversion.i = conversion.n
    /\ conversion' = [conversion EXCEPT !.pc = "returned"]
    /\ UNCHANGED <<file, pc, searchVars, buildVars, searchVideoVars, findMatches, retrying,
                   oauth>>

(***************************************************************************)
(* retryWithBackoff(fn, maxRetries, baseDelay).  outcomes lists what the   *)
(* calls of fn did so far; result is << >> while the function runs, then   *)
(* the value it resolved to or the error it rejected with.                 *)
(***************************************************************************)
\* what a call of fn can do: resolve to a value or reject with an error
FnOutcomes ==
    {[ok |-> TRUE, value |-> v] : v \in {"v1", "v2"}}
      \cup {[ok |-> FALSE, error |-> e] : e \in {"e1", "e2"}}

\* Math.pow(2, n) for n >= 0
RECURSIVE Pow2(_)
Pow2(n) == IF n = 0 THEN 1 ELSE 2 * Pow2(n - 1)

\* the for statement is entered with attempt = 1; when its test fails at
\* once the function goes to the throw after the loop
RetryWithBackoffStart(maxRetries, baseDelay) ==
    /\ retrying.pc \in {"idle", "returned", "threw"}
    /\ retrying' =
          [ pc |-> IF 1 <= maxRetries THEN "calling" ELSE "threw",
            maxRetries |-> maxRetries,
            baseDelay |-> baseDelay,
            attempt |-> 1,
            delay |-> 0,
            outcomes |-> << >>,
            result |-> IF 1 <= maxRetries
                         THEN << >>
                         ELSE <<[ok |-> FALSE, error |-> "Max retries exceeded"]>> ]
    /\ UNCHANGED <<file, pc, searchVars, buildVars, searchVideoVars, findMatches,
                   conversion, oauth>>

\* return await fn(), and the catch block
CallFn(outcome) ==
    /\ retrying.pc = "calling"
    /\ retrying' =
          IF outcome.ok
            THEN [ retrying EXCEPT !.pc = "returned",
                                   !.outcomes = Append(@, outcome),
                                   !.result = <<outcome>> ]
            ELSE IF retrying.attempt = retrying.maxRetries
                   THEN [ retrying EXCEPT !.pc = "threw",
                                          !.outcomes = Append(@, outcome),
                                          !.result = <<outcome>> ]
                   ELSE [ retrying EXCEPT
                            !.pc = "sleeping",
                            !.outcomes = Append(@, outcome),
                            !.delay = retrying.baseDelay
                                        * Pow2(retrying.attempt - 1) ]
    /\ UNCHANGED <<file, pc, searchVars, buildVars, searchVideoVars, findMatches,
                   conversion, oauth>>

\* sleep(delay) resolves, attempt++ and the test of the for statement
SleepEnds ==
    /\ retrying.pc = "sleeping"
    /\ retrying' =
          IF retrying.attempt + 1 <= retrying.maxRetries
            THEN [retrying EXCEPT !.pc = "calling", !.attempt = @ + 1]
            ELSE [ retrying EXCEPT
                     !.pc = "threw",
                     !.attempt = @ + 1,
                     !.result = <<[ok |-> FALSE, error |-> "Max retries exceeded"]>> ]
    /\ UNCHANGED <<file, pc, searchVars, buildVars, searchVideoVars, findMatches,
                   conversion, oauth>>

(***************************************************************************)
(* The OAuth handling in main of create-playlist and of retry-failed.  The *)
(* tokens are fields of the OAuthService object; no code of the repository *)
(* writes them to a file, so a new process starts from the fields of a new *)
(* object.  Times are in milliseconds.                                     *)
(***************************************************************************)
\* OAuthService.hasValidToken
hasValidToken(service, now) ==
    service.accessToken # Null /\ now < service.tokenExpiry - 300000

\* a process starts: main constructs its OAuthService and reads the
\* optional authorization code from the command line (<< >> is none)
RunStarts(authorizationCode) ==
    /\ oauth.pc \in {"none", "proceeds", "flow started", "exchange failed"}
    /\ oauth.runs < MaxRuns
    /\ oauth' = [ oauth EXCEPT
                    !.pc = "oauth",
                    !.authorizationCode = authorizationCode,
                    !.service = NewOAuthService,
                    !.runs = @ + 1,
                    !.exchanged = FALSE,
                    !.exchangedBefore = oauth.exchangedBefore \/ oauth.exchanged ]
    /\ UNCHANGED <<file, pc, searchVars, buildVars, searchVideoVars, findMatches,
                   conversion, retrying>>

\* "Handle OAuth flow" of main: exchangeCodeForToken when a code was given
\* (the token request succeeds with an access token of one hour, or fails
\* and the run ends in main's catch), else startOAuthFlow and return when
\* hasValidToken() is false, else on to the playlist
HandleOAuth(exchangeOk) ==
    /\ oauth.pc = "oauth"
    /\ oauth' =
          IF oauth.authorizationCode # << >>
            THEN IF exchangeOk
                   THEN [ oauth EXCEPT
                            !.pc = "proceeds",
                            !.exchanged = TRUE,
                            !.service = [ accessToken |-> 1,
                                          refreshToken |-> 1,
                                          tokenExpiry |-> oauth.now + 3600 * 1000 ] ]
                   ELSE [oauth EXCEPT !.pc = "exchange failed"]
            ELSE IF ~hasValidToken(oauth.service, oauth.now)
                   THEN [oauth EXCEPT !.pc = "flow started"]
                   ELSE [oauth EXCEPT !.pc = "proceeds"]
    /\ UNCHANGED <<file, pc, searchVars, buildVars, searchVideoVars, findMatches,
                   conversion, retrying>>

\* half an hour passes
ClockAdvances ==
    /\ oauth.now < MaxClockSteps * 1800000
    /\ oauth' = [oauth EXCEPT !.now = @ + 1800000]
    /\ UNCHANGED <<file, pc, searchVars, buildVars, searchVideoVars, findMatches,
                   conversion, retrying>>

\* a progress file of a finished search over n tracks, none found for the
\* tracks in unmatched
ProgressOf(n, unmatched) ==
    [ spotify_playlist |-> [total_tracks |-> n],
      tracks |-> [ t \in 1..n |->
                     TrackSearchResult(t, IF t \in unmatched THEN Null
                                                               ELSE VideoOf(t)) ],
      progress |-> [ tracks_processed |-> n,
                     tracks_found |-> n - Cardinality(unmatched),
                     tracks_not_found |-> Cardinality(unmatched),
                     current_batch_start |-> n ],
      search_stats |-> [ total_quota_used |-> SearchCost * n,
                         searches_performed |-> n ] ]

RECURSIVE CountAll(_, _)
CountAll(breakdown, kinds) ==
    IF kinds = << >> THEN breakdown
    ELSE CountAll(CountFailure(breakdown, Head(kinds)), Tail(kinds))

\* a result file in the layout retry-failed is written for: tracks_failed
\* holds the TrackSearchResult objects themselves
EarlierResult(progress, tube) ==
    LET matches == TracksWithMatches(progress.tracks)
        Added(r) == r.youtube_video \notin DOMAIN tube
        added   == SelectSeq(matches, Added)
        failed  == SelectSeq(matches, LAMBDA r : ~Added(r))
        kinds   == [k \in 1..Len(failed) |-> ErrorType(tube[failed[k].youtube_video])]
    IN  WithCreation(progress,
          [ youtube_playlist |-> YoutubePlaylist,
            tracks_added |-> added,
            tracks_failed |-> failed,
            creation_stats |->
                [ quota_used |-> PlaylistCreationCost + AddCost * Len(added),
                  success_rate |-> Divide(Len(added), Len(matches)),
                  failure_breakdown |-> CountAll(EmptyObject, kinds) ] ])

\* the build phase before its first run: the progress file of a finished
\* search over n tracks, any of them without a match, any of the matched
\* videos refused by YouTube, and either no result file or an earlier one
BuildInputs(sizes, unmatchable, refusable, answers) ==
    /\ pc = "idle"
    /\ MatchIdle
    /\ mem = << >>
    /\ startIndex = 0
    /\ batchSize = 0
    /\ i = 0
    /\ entry = [len |-> 0, processed |-> 0]
    /\ lastSession = "none"
    /\ allPositive = TRUE
    /\ otherSession = NoSession
    /\ job = NoJob
    /\ addLog = << >>
    /\ lastRun = "none"
    /\ \E n \in sizes :
         \E unmatched \in SUBSET (1..n) :
           \E refused \in SUBSET {VideoOf(t) : t \in (1..n) \ unmatched} :
             /\ Cardinality(unmatched) <= unmatchable
             /\ Cardinality(refused) <= refusable
             /\ playlistTotal = n
             /\ youtube \in [refused -> answers]
             /\ \/ /\ file = << >>
                   /\ n = 0
                   /\ resultFile = << >>
                   /\ resultBy = "none"
                \/ /\ file = <<ProgressOf(n, unmatched)>>
                   /\ \/ /\ resultFile = << >>
                         /\ resultBy = "none"
                      \/ /\ n > Cardinality(unmatched)
                         /\ resultFile = <<EarlierResult(file[1], youtube)>>
                         /\ resultBy = "earlier"

InitBuild ==
    BuildInputs(0..MaxBuildTracks, MaxBuildTracks, MaxBuildTracks,
                AddResponses \ {Ok})

NextBuild ==
    \/ BuildStart
    \/ BuildAdd
    \/ \E saveOk \in BOOLEAN : BuildFinish(saveOk)
    \/ RetryStart
    \/ RetryTrack
    \/ \E saveOk \in BOOLEAN : RetryFinish(saveOk)
    \/ KillRun
    \/ \E v \in DOMAIN youtube : Repair(v)

SpecBuild == InitBuild /\ [][NextBuild]_vars

\* the build-then-retry scenario: 10 matched tracks, up to 3 of the videos
\* refused as not found
InitScenario == BuildInputs({10}, 0, 3, {NotFound})

SpecScenario == InitScenario /\ [][NextBuild]_vars

InitSearch ==
    /\ playlistTotal \in NumTracks..(NumTracks + MaxNullItems)
    /\ file = << >>
    /\ pc = "idle"
    /\ mem = << >>
    /\ startIndex = 0
    /\ batchSize = 0
    /\ i = 0
    /\ entry = [len |-> 0, processed |-> 0]
    /\ lastSession = "none"
    /\ allPositive = TRUE
    /\ otherSession = NoSession
    /\ youtube = EmptyObject
    /\ resultFile = << >>
    /\ job = NoJob
    /\ addLog = << >>
    /\ lastRun = "none"
    /\ resultBy = "none"
    /\ MatchIdle

NextSearch ==
    \/ \E b \in BatchSizes : StartSession(b)
    \/ \E v \in 0..NumTracks, saveOk \in BOOLEAN : SearchTrack(v, saveOk)
    \/ \E saveOk \in BOOLEAN : EndBatch(saveOk)
    \/ Interrupt
    \/ \E total \in NumTracks..(NumTracks + MaxNullItems) : PlaylistChanges(total)

SpecSearch == InitSearch /\ [][NextSearch]_vars

\* searchVideo on its own: no progress file, no run of a script
InitMatch ==
    /\ MatchIdle
    /\ playlistTotal = 0
    /\ file = << >>
    /\ pc = "idle"
    /\ mem = << >>
    /\ startIndex = 0
    /\ batchSize = 0
    /\ i = 0
    /\ entry = [len |-> 0, processed |-> 0]
    /\ lastSession = "none"
    /\ allPositive = TRUE
    /\ otherSession = NoSession
    /\ youtube = EmptyObject
    /\ resultFile = << >>
    /\ job = NoJob
    /\ addLog = << >>
    /\ lastRun = "none"
    /\ resultBy = "none"

NextMatch ==
    \/ \E t \in Tracks : StartSearchVideo(t)
    \/ \E response \in SearchResponses : SearchQuery(response)
    \/ ReturnNull
    \/ RecordSearchResult
    \/ MapTrack

SpecMatch == InitMatch /\ [][NextMatch]_vars

\* the end-to-end scenario of main: every session is started with batch
\* size 3 and runs to its end
NextBatchOfThree ==
    \/ StartSession(3)
    \/ \E v \in 0..NumTracks, saveOk \in BOOLEAN : SearchTrack(v, saveOk)
    \/ \E saveOk \in BOOLEAN : EndBatch(saveOk)

SpecBatchOfThree == InitSearch /\ [][NextBatchOfThree]_vars

\* the three scripts run one after another in any order, on a playlist
\* whose first tracks are searched already: the first without a match, the
\* video of the second refused by YouTube; no result file, or an earlier one
InitPipeline ==
    /\ playlistTotal = NumTracks
    /\ file = <<[ProgressOf(SearchedBefore, {1})
                   EXCEPT !.spotify_playlist.total_tracks = NumTracks]>>
    /\ pc = "idle"
    /\ mem = << >>
    /\ startIndex = 0
    /\ batchSize = 0
    /\ i = 0
    /\ entry = [len |-> 0, processed |-> 0]
    /\ lastSession = "none"
    /\ allPositive = TRUE
    /\ otherSession = NoSession
    /\ youtube = (VideoOf(SearchedBefore) :> NotFound)
    /\ \/ resultFile = << >> /\ resultBy = "none"
       \/ resultFile = <<EarlierResult(file[1], youtube)>> /\ resultBy = "earlier"
    /\ job = NoJob
    /\ addLog = << >>
    /\ lastRun = "none"
    /\ MatchIdle

NextPipeline ==
    \/ StartSession(MaxBatch)
    \/ \E v \in 0..NumTracks, saveOk \in BOOLEAN : SearchTrack(v, saveOk)
    \/ \E saveOk \in BOOLEAN : EndBatch(saveOk)
    \/ BuildStart
    \/ BuildAdd
    \/ \E saveOk \in BOOLEAN : BuildFinish(saveOk)
    \/ RetryStart
    \/ RetryTrack
    \/ \E saveOk \in BOOLEAN : RetryFinish(saveOk)
    \/ \E v \in DOMAIN youtube : Repair(v)

SpecPipeline == InitPipeline /\ [][NextPipeline]_vars

\* convertPlaylist adds the videos of up to MaxBuildTracks mappings, any of
\* them refused by YouTube
InitConvert ==
    BuildInputs({MaxBuildTracks}, 0, MaxBuildTracks, AddResponses \ {Ok})

NextConvert ==
    \/ \E n \in 0..MaxBuildTracks : ConvertStart(n)
    \/ ConvertAdd
    \/ ConvertFinish

SpecConvert == InitConvert /\ [][NextConvert]_vars

NextOAuth ==
    \/ \E authorizationCode \in {<< >>, <<"code">>} : RunStarts(authorizationCode)
    \/ \E exchangeOk \in BOOLEAN : HandleOAuth(exchangeOk)
    \/ ClockAdvances

SpecOAuth == InitMatch /\ [][NextOAuth]_vars

NextRetrying ==
    \/ \E maxRetries \in 0..MaxMaxRetries, baseDelay \in {0, 500, 1000} :
          RetryWithBackoffStart(maxRetries, baseDelay)
    \/ \E outcome \in FnOutcomes : CallFn(outcome)
    \/ SleepEnds

SpecRetrying == InitMatch /\ [][NextRetrying]_vars

NextFindMatches ==
    \/ \E n \in 0..MaxMatchTracks : FindMatchesStart(n)
    \/ \E k \in 1..MaxMatchTracks : TimerFires(k)
    \/ \E k \in 1..MaxMatchTracks, isFound \in BOOLEAN : SearchCompletes(k, isFound)
    \/ AwaitAll

SpecFindMatches == InitMatch /\ [][NextFindMatches]_vars

\* searchVideo with every awaited search call settling: the call goes on
\* from an await when its promise resolves or rejects
SpecMatchFair ==
    /\ SpecMatch
    /\ WF_vars(\E response \in SearchResponses : SearchQuery(response))
    /\ WF_vars(ReturnNull)

\* sessions of batch size 3 on one playlist, and a second process that runs
\* one such session at the same time as one of them or between two of them;
\* no write fails
NextParallel ==
    \/ StartSession(3)
    \/ \E v \in 0..NumTracks : SearchTrack(v, TRUE)
    \/ EndBatch(TRUE)
    \/ OtherStartSession(3)
    \/ \E v \in 0..NumTracks : OtherSearchTrack(v, TRUE)
    \/ OtherEndBatch(TRUE)

SpecParallel == InitSearch /\ [][NextParallel]_vars

(***************************************************************************)
(* Properties of the search phase.                                          *)
(***************************************************************************)
\* every progress record there is: the persisted one and the session's
ProgressRecords == {file[k] : k \in DOMAIN file} \cup {mem[k] : k \in DOMAIN mem}

CountersAgree(p) ==
    /\ p.progress.tracks_processed = Len(p.tracks)
    /\ p.progress.tracks_found + p.progress.tracks_not_found
         = p.progress.tracks_processed

\* C1: in every reachable state, in memory and on disk, tracks_processed is
\* the length of the results list and tracks_found + tracks_not_found is
\* tracks_processed, whichever path (try or catch) recorded each outcome.
C1_CountersAgree == \A p \in ProgressRecords : CountersAgree(p)

\* C1 witness: a persisted record that went through the catch block (one
\* track recorded twice, so more results than tracks) and through the
\* normal path with a match, over more than one session.
C1_Witness ==
    /\ file # << >>
    /\ lastSession = "complete"
    /\ entry.len > 0
    /\ Len(file[1].tracks) > Len(allTracks)
    /\ file[1].progress.tracks_found > 0

\* C2: every persisted progress record has current_batch_start equal to
\* tracks_processed.
C2_CursorEqualsProcessed ==
    file # << >> =>
        file[1].progress.current_batch_start = file[1].progress.tracks_processed

\* C3: after sessions with positive batch sizes only (interrupted or not),
\* entry k of the persisted results list is the outcome of track k: no track
\* is recorded twice and none is skipped.
C3_IndexAligned ==
    (allPositive /\ file # << >>) =>
        /\ Len(file[1].tracks) <= Len(allTracks)
        /\ \A k \in 1..Len(file[1].tracks) :
              file[1].tracks[k].spotify_track = allTracks[k]

\* C4: an uninterrupted session with batch size b >= 1 records exactly
\* min(remaining, b) new outcomes, those of the consecutive tracks from
\* index current_batch_start on.
C4_OneBatchPerSession ==
    (pc = "idle" /\ lastSession = "complete" /\ batchSize >= 1) =>
        LET remaining == Len(allTracks) - entry.processed
            n         == Min(remaining, batchSize)
            results   == file[1].tracks
        IN  /\ Len(results) - entry.len = n
            /\ \A k \in 1..n :
                  /\ startIndex + k \in DOMAIN allTracks
                  /\ results[entry.len + k].spotify_track
                       = allTracks[startIndex + k]

(***************************************************************************)
(* Properties of the build phase.                                           *)
(***************************************************************************)
\* the persisted PlaylistCreationResult
Creation == resultFile[1].playlist_creation

\* how often x occurs in the sequence s
Occurrences(s, x) == Cardinality({k \in DOMAIN s : s[k] = x})

\* the search result a tracks_failed entry stands for: the entry itself, or
\* the track of a TrackFailure
ResultOf(e) == IF Has(e, "track") THEN e.track ELSE e

FailedResults(c) == [k \in DOMAIN c.tracks_failed |-> ResultOf(c.tracks_failed[k])]

\* the tracks_failed entries of c whose error kind is k
FailedOfKind(c, k) ==
    {n \in DOMAIN c.tracks_failed :
        /\ Has(c.tracks_failed[n], "errorType")
        /\ c.tracks_failed[n].errorType = k}

BreakdownOf(c, k) ==
    IF k \in DOMAIN c.creation_stats.failure_breakdown
      THEN c.creation_stats.failure_breakdown[k] ELSE 0

RECURSIVE SumOver(_, _)
SumOver(F(_), S) ==
    IF S = {} THEN 0
    ELSE LET x == CHOOSE y \in S : TRUE IN F(x) + SumOver(F, S \ {x})

\* C5: in the result a completed build wrote, every search result with a
\* video is once in tracks_added or once in tracks_failed, never in both,
\* and a result without a video is in neither; nothing else is in them.
C5_AddedFailedPartition ==
    resultBy = "build" =>
        /\ \A k \in DOMAIN file[1].tracks :
              LET r == file[1].tracks[k]
              IN  Occurrences(Creation.tracks_added, r)
                    + Occurrences(FailedResults(Creation), r)
                      = IF HasVideo(r) THEN 1 ELSE 0
        /\ \A k \in DOMAIN Creation.tracks_added :
              Occurrences(file[1].tracks, Creation.tracks_added[k]) = 1
        /\ \A k \in DOMAIN Creation.tracks_failed :
              Occurrences(file[1].tracks, FailedResults(Creation)[k]) = 1

\* C5 witness: a completed build over results with and without a video,
\* some added and some failed.
C5_Witness ==
    /\ resultBy = "build"
    /\ lastRun = "build complete"
    /\ Len(Creation.tracks_added) > 0
    /\ Len(Creation.tracks_failed) > 0
    /\ \E k \in DOMAIN file[1].tracks : ~HasVideo(file[1].tracks[k])

\* the retry run that just ended read a result file written by a build
RetryOfBuildEnded ==
    /\ pc = "idle"
    /\ job.kind = "retry"
    /\ job.loadedBy = "build"
    /\ lastRun \in {"retry complete", "retry crashed"}

\* C6: a build of 10 matched tracks in which 3 adds fail as VIDEO_NOT_FOUND,
\* followed by a retry run at a time when 2 of those 3 videos can be added,
\* ends with 9 entries in tracks_added, 1 in tracks_failed and a
\* success_rate of 0.9 persisted.
C6_BuildThenRetry ==
    ( /\ RetryOfBuildEnded
      /\ Len(job.result.tracks_added) = 7
      /\ Len(job.result.tracks_failed) = 3
      /\ \A k \in 1..3 : job.result.tracks_failed[k].errorType = "VIDEO_NOT_FOUND"
      /\ Cardinality({k \in 1..3 :
            ResultOf(job.result.tracks_failed[k]).youtube_video
               \notin DOMAIN youtube}) = 2 )
    => /\ Len(Creation.tracks_added) = 9
       /\ Len(Creation.tracks_failed) = 1
       /\ Creation.creation_stats.success_rate = Divide(9, 10)

\* C7: a retry run on the result file of a build with failed adds passes
\* every entry of tracks_failed to addVideoToPlaylist, once and in order,
\* and writes the result file with the entries moved.
C7_RetryAttemptsEveryFailed ==
    (RetryOfBuildEnded /\ Len(job.failedTracks) > 0) =>
        /\ Len(addLog) = Len(job.failedTracks)
        /\ \A k \in DOMAIN addLog :
              addLog[k] = ResultOf(job.failedTracks[k]).youtube_video
        /\ resultBy = "retry"
        /\ Len(Creation.tracks_added)
             = Len(job.result.tracks_added) + Len(job.newlyAdded)
        /\ Creation.tracks_failed = job.stillFailed

IsPrefix(s, t) == Len(s) <= Len(t) /\ SubSeq(t, 1, Len(s)) = s

\* what a retry may do to the persisted result
OnlyMovesToAdded(old, new) ==
    /\ IsPrefix(old.tracks_added, new.tracks_added)
    /\ \A k \in DOMAIN new.tracks_failed :
          \E n \in DOMAIN old.tracks_failed :
              new.tracks_failed[k] = old.tracks_failed[n]
    /\ Len(new.tracks_added) + Len(new.tracks_failed)
         = Len(old.tracks_added) + Len(old.tracks_failed)

\* C8: every step of a retry run leaves the persisted tracks_added a prefix
\* of what it becomes, every entry of the new tracks_failed was in the old
\* one, and |tracks_added| + |tracks_failed| stays as it was.
C8_RetryOnlyGrowsAdded ==
    [][pc = "retry" =>
          OnlyMovesToAdded(resultFile[1].playlist_creation,
                           resultFile'[1].playlist_creation)]_vars

\* C8 witness: a retry of the result of an earlier retry has completed,
\* moving some entries to tracks_added and leaving others failed.
C8_Witness ==
    /\ lastRun = "retry complete"
    /\ job.loadedBy = "retry"
    /\ Len(job.result.tracks_added) > 0
    /\ Len(job.newlyAdded) > 0
    /\ Len(job.stillFailed) > 0
    /\ Creation = UpdatedResult(job)

\* C9: the success_rate a completed build or retry persisted is
\* |tracks_added| / (|tracks_added| + |tracks_failed|) of the lists it
\* persisted.
C9_SuccessRate ==
    resultBy \in {"build", "retry"} =>
        Creation.creation_stats.success_rate
          = Divide(Len(Creation.tracks_added),
                   Len(Creation.tracks_added) + Len(Creation.tracks_failed))

\* C9 witness: a completed retry moved some entries to tracks_added and
\* left others in tracks_failed.
C9_Witness ==
    /\ resultBy = "retry"
    /\ lastRun = "retry complete"
    /\ Len(job.newlyAdded) > 0
    /\ Len(Creation.tracks_failed) > 0
    /\ Creation.creation_stats.success_rate # Divide(1, 1)

BreakdownCountsFailed(c) ==
    /\ \A k \in ErrorTypes : BreakdownOf(c, k) = Cardinality(FailedOfKind(c, k))
    /\ DOMAIN c.creation_stats.failure_breakdown \subseteq ErrorTypes
    /\ LET Count(k) == BreakdownOf(c, k)
       IN  SumOver(Count, ErrorTypes) = Len(c.tracks_failed)

C11_FailureIsNoCandidates ==
    \A k \in DOMAIN outcomes :
        (outcomes[k] = "failed" /\ k < Len(queries)) =>
            (searchPc = "searching" \/ Len(issued) > k)

\* C12: the queries are issued one at a time in list order; an accepted
\* match is returned at once and ends the queries for the track; null is
\* returned only after every query of the list was issued without an
\* accepted match.
C12_QueriesInOrder ==
    /\ issued = SubSeq(queries, 1, Len(issued))
    /\ Len(outcomes) = Len(issued)
    /\ \A k \in DOMAIN outcomes :
          outcomes[k] = "accepted" =>
              /\ k = Len(issued)
              /\ searchPc = "returned"
              /\ found # << >>
              /\ found = bestMatch
    /\ (searchPc = "returned" /\ found # << >>) =>
          outcomes[Len(outcomes)] = "accepted"
    /\ (searchPc = "returned" /\ found = << >>) =>
          /\ Len(issued) = Len(queries)
          /\ \A k \in DOMAIN outcomes : outcomes[k] # "accepted"

\* the candidate the selection rule names: the earliest of those with the
\* highest score, if that score is at least 2
SelectedCandidate(t, vs) ==
    IF vs = << >> THEN << >>
    ELSE LET top == CHOOSE m \in {Scores[t, vs[k]] : k \in DOMAIN vs} :
                        \A k \in DOMAIN vs : Scores[t, vs[k]] <= m
             first == CHOOSE k \in DOMAIN vs :
                        /\ Scores[t, vs[k]] = top
                        /\ \A n \in DOMAIN vs : Scores[t, vs[n]] = top => k <= n
         IN  IF top >= 2 THEN <<vs[first]>> ELSE << >>

\* C13: findBestMatch returns the candidate with the highest score, the
\* earliest one when several have it, and only if that score is at least 2;
\* otherwise it returns no match, also when every score is zero or negative.
C13_EarliestHighestScore ==
    bestMatch = SelectedCandidate(spotifyTrack, videos)

\* C13 witness: two candidates tie for the highest score, which is at least
\* 2, and the first of them was returned.
C13_Witness ==
    /\ searchPc = "returned"
    /\ Len(videos) = 2
    /\ videos[1] # videos[2]
    /\ Scores[spotifyTrack, videos[1]] = Scores[spotifyTrack, videos[2]]
    /\ Scores[spotifyTrack, videos[1]] >= 2
    /\ found = <<videos[1]>>

\* the terms of the score, as <<points, condition>>, and their sum
ScoreTerms(t, video) ==
    LET name    == toLowerCase(t.name)
        artist  == ArtistName(t)
        title   == toLowerCase(video.snippet.title)
        channel == toLowerCase(video.snippet.channelTitle)
        nameWords   == Words(name)
        artistWords == Words(artist)
    IN  << <<3, includes(title, name)>>,
           <<3, includes(title, artist)>>,
           <<Cardinality({k \in DOMAIN nameWords : includes(title, nameWords[k])}),
             TRUE>>,
           <<Cardinality({k \in DOMAIN artistWords :
                            \/ includes(title, artistWords[k])
                            \/ includes(channel, artistWords[k])}), TRUE>>,
           <<2, includes(title, "official")>>,
           <<2, includes(channel, artist)>>,
           <<-1, includes(title, "live")>>,
           <<-2, includes(title, "cover")>>,
           <<-3, includes(title, "karaoke")>>,
           <<1, includes(channel, "official") \/ includes(channel, "records")>> >>

RECURSIVE SumTerms(_)
SumTerms(terms) ==
    IF terms = << >> THEN 0
    ELSE (IF Head(terms)[2] THEN Head(terms)[1] ELSE 0) + SumTerms(Tail(terms))

ListedScores == [t \in Tracks, video \in Videos |-> SumTerms(ScoreTerms(t, video))]

SongByArtist == SpotifyTrack("Song", <<"Artist">>)

IsOfficialVideo(video) == video.snippet.title = "Artist - Song (Official Video)"

\* the cover, on a channel that names neither the artist nor itself official
IsCoffeeShopCover(video) ==
    /\ video.snippet.title = "Random Coffee Shop Cover"
    /\ ~includes(toLowerCase(video.snippet.channelTitle), "artist")
    /\ ~includes(toLowerCase(video.snippet.channelTitle), "official")
    /\ ~includes(toLowerCase(video.snippet.channelTitle), "records")

\* C14: the score of every candidate is the sum of the listed terms; for
\* the track "Song" by "Artist" the candidate "Artist - Song (Official
\* Video)" is returned when offered before "Random Coffee Shop Cover", and
\* the cover offered alone scores below 2 and gives no match.
C14_ScoreIsSumOfTerms ==
    /\ \A k \in DOMAIN videos :
          Scores[spotifyTrack, videos[k]] = ListedScores[spotifyTrack, videos[k]]
    /\ ( /\ spotifyTrack = SongByArtist
         /\ Len(videos) = 2
         /\ IsOfficialVideo(videos[1])
         /\ IsCoffeeShopCover(videos[2]) )
       => bestMatch = <<videos[1]>>
    /\ ( /\ spotifyTrack = SongByArtist
         /\ Len(videos) = 1
         /\ IsCoffeeShopCover(videos[1]) )
       => /\ Scores[spotifyTrack, videos[1]] < 2
          /\ bestMatch = << >>

\* C14 witness: searchVideo returned the official video, offered together
\* with the cover for "Song" by "Artist".
C14_Witness ==
    /\ spotifyTrack = SongByArtist
    /\ searchPc = "returned"
    /\ Len(videos) = 2
    /\ IsOfficialVideo(videos[1])
    /\ IsCoffeeShopCover(videos[2])
    /\ found = <<videos[1]>>

(***************************************************************************)
(* Properties of error handling and persistence.                            *)
(***************************************************************************)
\* the items of the batch of the current or last build or retry, and how
\* many of them have a recorded outcome
RunItems == IF job.kind = "build" THEN job.tracksWithMatches ELSE job.failedTracks

RunRecorded ==
    IF job.kind = "build"
      THEN Len(job.tracksAdded) + Len(job.tracksFailed)
      ELSE Len(job.newlyAdded) + Len(job.stillFailed)

\* C15: a failure on one item never aborts the batch: a build or retry
\* that was not killed and got to its loop has attempted every item of its
\* batch, in order, and recorded an outcome for each.
C15_FailureNeverAborts ==
    ( /\ pc = "idle"
      /\ job.kind \in {"build", "retry"}
      /\ lastRun \in { "build complete", "build save failed", "retry complete",
                       "retry save failed", "retry crashed" } )
    => /\ Len(addLog) = Len(RunItems)
       /\ \A k \in DOMAIN addLog :
             addLog[k] = ResultOf(RunItems[k]).youtube_video
       /\ RunRecorded = Len(RunItems)

\* no build is possible from the progress file: it is missing, or its
\* results list is empty, or no result has a video
NothingToBuild ==
    \/ file = << >>
    \/ \A k \in DOMAIN file[1].tracks : ~HasVideo(file[1].tracks[k])

\* the step is the start of a build
BuildRequested ==
    /\ pc = "idle"
    /\ \/ lastRun' = "build aborted"
       \/ pc' = "build"

\* C16: a build requested when the progress file is missing, its results
\* list is empty or no result has a video aborts the run: no playlist is
\* created, no add is attempted and neither file is written.
C16_BuildAbortsUntouched ==
    [][(BuildRequested /\ NothingToBuild) =>
          /\ pc' = "idle"
          /\ lastRun' = "build aborted"
          /\ job' = NoJob
          /\ addLog' = << >>
          /\ file' = file
          /\ resultFile' = resultFile]_vars

\* C16 witness: a build was aborted on a progress file whose results are
\* all without a video.
C16_Witness ==
    /\ lastRun = "build aborted"
    /\ file # << >>
    /\ Len(file[1].tracks) > 0
    /\ NothingToBuild
    /\ job = NoJob
    /\ resultFile = << >>

\* how many outcomes the progress file holds
PersistedOutcomes == IF file = << >> THEN 0 ELSE Len(file[1].tracks)

\* C17: at every point of a search session at most 4 outcomes are recorded
\* in memory and not persisted.
C17_UnsavedAtMostFour ==
    pc = "batch" => Len(mem[1].tracks) - PersistedOutcomes <= 4

\* C18: after an interrupted session every search the session completed is
\* in the progress file, and the next run resumes where the interrupted
\* one stopped.
C18_InterruptLosesNothing ==
    (pc = "idle" /\ lastSession = "interrupted") =>
        /\ PersistedOutcomes >= entry.len + i
        /\ loadOrCreateProgress.progress.current_batch_start = startIndex + i

\* C19: in every progress record searches_performed is tracks_processed
\* and total_quota_used is 100 for each processed track.
C19_SearchesAndQuota ==
    \A p \in ProgressRecords :
        /\ p.search_stats.searches_performed = p.progress.tracks_processed
        /\ p.search_stats.total_quota_used = 100 * p.progress.tracks_processed

\* C20: in every progress record tracks_found is the number of results
\* with a video and tracks_not_found the number of results without one.
C20_FoundCountsVideos ==
    \A p \in ProgressRecords :
        /\ p.progress.tracks_found
             = Cardinality({k \in DOMAIN p.tracks : p.tracks[k].youtube_video # Null})
        /\ p.progress.tracks_not_found
             = Cardinality({k \in DOMAIN p.tracks : p.tracks[k].youtube_video = Null})

\* C20 witness: a session's record holds an outcome of the catch block next
\* to found and not found outcomes of the try block.
C20_Witness ==
    /\ pc = "batch"
    /\ Len(mem[1].tracks) > startIndex + i
    /\ mem[1].progress.tracks_found > 0
    /\ mem[1].progress.tracks_not_found > 1

(***************************************************************************)
(* Properties of sessions, completion and the persisted records.            *)
(***************************************************************************)
\* the progress file holds the outcomes of the first n tracks, one each and
\* in order, with tracks_processed and current_batch_start at n
PersistedUpTo(n) ==
    /\ file # << >>
    /\ Len(file[1].tracks) = n
    /\ \A k \in 1..n : file[1].tracks[k].spotify_track = allTracks[k]
    /\ file[1].progress.tracks_processed = n
    /\ file[1].progress.current_batch_start = n

SessionCompleted == pc = "idle" /\ lastSession = "complete"

\* C21: 7 tracks, batch size 3: the session that starts from nothing
\* persists tracks 0-2 with tracks_processed = 3 and current_batch_start =
\* 3, the session after it tracks 3-5, the third only track 6, after which
\* nothing remains; an invocation that finds nothing remaining records
\* nothing and leaves the progress file as it is.
C21_SevenTracksBatchThree ==
    /\ []((SessionCompleted /\ entry.processed = 0) => PersistedUpTo(3))
    /\ []((SessionCompleted /\ entry.processed = 3) => PersistedUpTo(6))
    /\ []((SessionCompleted /\ entry.processed = 6) =>
            /\ PersistedUpTo(7)
            /\ Len(allTracks) - file[1].progress.tracks_processed = 0)
    /\ [](lastSession = "nothing to do" => PersistedUpTo(7))
    /\ [][(pc = "idle" /\ lastSession' = "nothing to do") =>
            (file' = file /\ mem' = << >> /\ pc' = "idle")]_vars

\* the search phase found nothing remaining: allTracks.length -
\* tracks_processed is 0 at the start of an invocation
ReportsAllProcessed == pc = "idle" /\ lastSession = "nothing to do"

\* C22: whenever the search phase reports that all tracks have been
\* processed, the persisted record has tracks_processed >= total_tracks, so
\* the completeness test of the build does not see the search as
\* incomplete; also when fewer tracks are retrieved than total_tracks.
C22_CompleteMeansTotalReached ==
    ReportsAllProcessed =>
        /\ file # << >>
        /\ file[1].progress.tracks_processed
             >= file[1].spotify_playlist.total_tracks
        /\ ~SearchIncomplete(file[1])

\* C23: once the progress file exists, no step of a later session changes
\* its spotify_playlist, also when the playlist fetched in that session has
\* another track count than the one captured.
C23_PlaylistRefFixed ==
    [][(file # << >> /\ file' # << >>) =>
          file'[1].spotify_playlist = file[1].spotify_playlist]_vars

\* C23 witness: a later session has written the progress file while the
\* live playlist reports another total than the captured one.
C23_Witness ==
    /\ pc = "batch"
    /\ entry.len > 0
    /\ file # << >>
    /\ Len(file[1].tracks) > entry.len
    /\ file[1].spotify_playlist.total_tracks # playlistTotal

\* the results list a file holds
ResultsIn(f) == IF f = << >> THEN << >> ELSE f[1].tracks

\* C24: every step of a search session, a build or a retry leaves the
\* results list of the progress file and the one of the result file a
\* prefix of what it becomes: entries are appended, never modified,
\* reordered or removed.
C24_ResultsAppendOnly ==
    [][/\ IsPrefix(ResultsIn(file), ResultsIn(file'))
       /\ IsPrefix(ResultsIn(resultFile), ResultsIn(resultFile'))]_vars

\* C24 witness: a build has replaced the result file with a copy of the
\* results that holds what the last session appended.
C24_Witness ==
    /\ lastSession = "complete"
    /\ entry.len > 0
    /\ Len(file[1].tracks) > entry.len
    /\ resultBy = "build"
    /\ lastRun = "build complete"
    /\ Len(resultFile[1].tracks) > entry.len

(***************************************************************************)
(* Properties of what is recorded for an add and for a search.              *)
(***************************************************************************)
\* the eight kinds the taxonomy lists
ListedKinds ==
    { "VIDEO_PRIVATE_OR_DELETED", "VIDEO_NOT_FOUND", "VIDEO_EMBEDDING_DISABLED",
      "QUOTA_EXCEEDED", "FORBIDDEN_GENERIC", "BAD_REQUEST", "NETWORK_ERROR",
      "UNKNOWN" }

\* the failures a build has recorded: in its locals and in what it wrote
BuildFailures ==
    (IF job.kind = "build"
       THEN {job.tracksFailed[k] : k \in DOMAIN job.tracksFailed} ELSE {})
    \cup (IF resultBy = "build"
            THEN {Creation.tracks_failed[k] : k \in DOMAIN Creation.tracks_failed}
            ELSE {})

BuildBreakdownKinds ==
    (IF job.kind = "build" THEN DOMAIN job.failureBreakdown ELSE {})
    \cup (IF resultBy = "build"
            THEN DOMAIN Creation.creation_stats.failure_breakdown ELSE {})

Recorded == {searchResult[k].value[1] : k \in
                {n \in DOMAIN searchResult : searchResult[n].by = "searchTrackBatch"}}

\* C26: the result recorded for a track lists in search_queries_tried the
\* queries that were issued for it, in the order issued: those up to the
\* matching one when a match was found, the whole list when none was.
C26_QueriesTriedAreIssued ==
    \A r \in Recorded :
        /\ r.search_queries_tried = issued
        /\ r.youtube_video = << >> => r.search_queries_tried = queries

\* what findMatchesForTracks mapped the track to, if it has
Mapped == {searchResult[k].value[1] : k \in
              {n \in DOMAIN searchResult :
                  /\ searchResult[n].by = "findMatchesForTracks"
                  /\ searchResult[n].value # << >>}}

\* C27: both formulas give a confidence between 0 and 1 (0 and 10 tenths)
\* for every track and video, every recorded confidence is in that range,
\* and a result recorded without a video has confidence 0.
C27_ConfidenceInUnitRange ==
    /\ \A t \in Tracks, video \in Videos :
          /\ MatchConfidences[t, video] \in 0..10
          /\ Confidences[t, video] \in 0..10
    /\ \A r \in Recorded :
          /\ r.confidence \in 0..10
          /\ r.youtube_video # << >> =>
                r.confidence = calculateMatchConfidence(r.spotify_track,
                                                        r.youtube_video[1])
          /\ r.youtube_video = << >> => r.confidence = 0
    /\ \A m \in Mapped : m.confidence \in 0..10

\* C27 witness: a result was recorded with a video whose confidence sums
\* up to less than 0 and is recorded as 0.
C27_Witness ==
    \E r \in Recorded :
        /\ r.youtube_video # << >>
        /\ RawMatchConfidence(r.spotify_track, r.youtube_video[1]) < 0
        /\ r.confidence = 0

(***************************************************************************)
(* Properties of the query generator.                                       *)
(***************************************************************************)
\* the index of the first occurrence of q in qs
FirstIndex(qs, q) == CHOOSE k \in DOMAIN qs : qs[k] = q /\ \A n \in 1..(k - 1) : qs[n] # q

IsBlank(q) == \A k \in 1..Len(q) : IsSpace(CharAt(q, k))

\* qs holds every non-blank string of the candidates once, in the order
\* of their first occurrence, and nothing else
DeduplicatedInOrder(qs, candidates) ==
    /\ Len(qs) \in 1..7
    /\ \A k \in DOMAIN qs : ~IsBlank(qs[k])
    /\ \A j, k \in DOMAIN qs : j # k => qs[j] # qs[k]
    /\ {qs[k] : k \in DOMAIN qs}
         = {candidates[k] : k \in {n \in DOMAIN candidates : ~IsBlank(candidates[n])}}
    /\ \A j, k \in DOMAIN qs :
          j < k => FirstIndex(candidates, qs[j]) < FirstIndex(candidates, qs[k])

FeaturedRemix == "Song (feat. X) - 2020 Remix"

\* the cleaned title has neither "feat" nor "remix" nor a digit in it
CleanedOfFeatureAndRemix(trackName) ==
    LET cleaned == toLowerCase(cleanTrackName(trackName))
    IN  /\ ~includes(cleaned, "feat")
        /\ ~includes(cleaned, "remix")
        /\ \A k \in 1..Len(cleaned) : ~IsDigit(CharAt(cleaned, k))

\* what is claimed of the queries of a track, computed once for each track
QueriesAsClaimed ==
    [t \in Tracks |->
        /\ DeduplicatedInOrder(generateSearchQueries(t), QueryCandidates(t))
        /\ t.name = FeaturedRemix => CleanedOfFeatureAndRemix(t.name)]

\* C28: for every track, also one with an empty title and no artist, the
\* queries of a search are a non-empty list of at most 7 strings without a
\* duplicate and without a blank string, in the precedence order of the
\* candidates, each at the place of its first occurrence; the title "Song
\* (feat. X) - 2020 Remix" is cleaned to a string with neither "feat" nor
\* "remix" nor a digit of the year in it.
C28_QueriesDeduplicatedInOrder ==
    searchPc # "idle" =>
        /\ queries = SearchQueries[spotifyTrack]
        /\ QueriesAsClaimed[spotifyTrack]

\* C28 witness: the queries of "Song (feat. X) - 2020 Remix" by "Artist" are
\* all 7 candidates, and the last of them has been issued.
C28_Witness ==
    /\ spotifyTrack.name = FeaturedRemix
    /\ Len(queries) = 7
    /\ issued = queries

(***************************************************************************)
(* Properties of the order of operations.                                   *)
(***************************************************************************)
\* how many outcomes the build or retry with the locals j has recorded
RecordedBy(j) ==
    IF j.kind = "build" THEN Len(j.tracksAdded) + Len(j.tracksFailed)
    ELSE IF j.kind = "retry" THEN Len(j.newlyAdded) + Len(j.stillFailed)
    ELSE 0

\* a step of a session searches one track, the next of its batch, and has
\* its outcome in the record when the step is over
OneSearchPerStep ==
    (pc = "batch" /\ pc' = "batch") =>
        /\ i' = i + 1
        /\ mem'[1].search_stats.searches_performed
             = mem[1].search_stats.searches_performed + 1
        /\ Len(mem'[1].tracks) > Len(mem[1].tracks)
        /\ \A k \in (Len(mem[1].tracks) + 1)..Len(mem'[1].tracks) :
              mem'[1].tracks[k].spotify_track = allTracks[startIndex + i + 1]

\* a step of a build or retry that calls addVideoToPlaylist calls it once,
\* for the item after the last recorded one, when every earlier call has
\* its outcome recorded, and has the outcome recorded when it is over
OneAddPerStep ==
    (pc \in {"build", "retry"} /\ addLog' # addLog) =>
        /\ Len(addLog) = RecordedBy(job)
        /\ addLog' = Append(addLog,
                            ResultOf(RunItems[Len(addLog) + 1]).youtube_video)
        /\ RecordedBy(job') = Len(addLog')

\* C29: within a search session, a build and a retry the operations are
\* strictly sequential: one search or add at a time, and the one for item
\* i + 1 starts only after the outcome of item i is recorded.
C29_OneOperationAtATime == [][OneSearchPerStep /\ OneAddPerStep]_vars

\* C29 witness: a build is in its loop with an added and a failed item
\* recorded, after a session that searched more than one track.
C29_Witness ==
    /\ pc = "build"
    /\ Len(job.tracksAdded) > 0
    /\ Len(job.tracksFailed) > 0
    /\ Len(addLog) = RecordedBy(job)
    /\ lastSession = "complete"
    /\ Len(file[1].tracks) > entry.len + 1

(***************************************************************************)
(* Properties of sessions run with several API keys.                        *)
(***************************************************************************)
\* the tracks a session searched: those at the indices from its start on
SearchedFrom(start, n) == {allTracks[k] : k \in (start + 1)..(start + n)}

BothSessionsCompleted ==
    /\ pc = "idle"
    /\ lastSession = "complete"
    /\ otherSession.pc = "idle"
    /\ otherSession.lastSession = "complete"

\* C30: sessions for the same playlist started with different API keys, at
\* the same time or not, each search a range of tracks of their own, and
\* when both have finished the progress file holds every track either of
\* them searched once, tracks_processed counting them all.
C30_ParallelSessionsPartition ==
    BothSessionsCompleted =>
        LET mine    == SearchedFrom(startIndex, i)
            theirs  == SearchedFrom(otherSession.startIndex, otherSession.i)
            results == file[1].tracks
        IN  /\ mine \cap theirs = {}
            /\ \A t \in mine \cup theirs :
                  Cardinality({k \in DOMAIN results : results[k].spotify_track = t})
                    = 1
            /\ file[1].progress.tracks_processed = Len(results)
            /\ file[1].progress.tracks_processed >= Cardinality(mine \cup theirs)

(***************************************************************************)
(* Properties of a failing checkpoint write.                                *)
(***************************************************************************)
\* the step of searchTrackBatch whose checkpoint write throws: the loop moves
\* on at a checkpoint index and the file is not written
CheckpointWriteFails ==
    /\ pc = "batch"
    /\ i' = i + 1
    /\ IsCheckpoint(startIndex + i)
    /\ file' = file

\* C33: when the checkpoint write after a track throws, the track is still
\* recorded once: the results list in memory gains one entry and
\* tracks_processed grows by 1; and a batch that ends saves
\* current_batch_start equal to tracks_processed.
C33_FailedCheckpointRecordsOnce ==
    [][ /\ CheckpointWriteFails =>
            /\ Len(mem'[1].tracks) = Len(mem[1].tracks) + 1
            /\ mem'[1].progress.tracks_processed
                 = mem[1].progress.tracks_processed + 1
        /\ (pc = "batch" /\ pc' = "idle" /\ lastSession' = "complete") =>
            file'[1].progress.current_batch_start
              = file'[1].progress.tracks_processed ]_vars

(***************************************************************************)
(* Properties of the quota a retry accounts.                                *)
(***************************************************************************)
\* a retry run has completed and saved its result
RetryCompleted ==
    /\ pc = "idle"
    /\ job.kind = "retry"
    /\ lastRun = "retry complete"

Resolved ==
    /\ searchPc = "returned"
    /\ \/ found = << >>
       \/ \E k \in DOMAIN videos : found = <<videos[k]>>

\* C34: whatever the search capability answers, searchVideo issues at most
\* 7 search calls, a call that was started resolves, to a video or to
\* null, and no error reaches the caller: after a failed search call it
\* has resolved to null.
C34_SearchVideoResolves ==
    /\ [](Len(issued) <= 7)
    /\ [](searchPc \in {"idle", "searching", "returned"})
    /\ [](searchPc = "returned" => Resolved)
    /\ []((outcomes # << >> /\ outcomes[Len(outcomes)] = "failed")
             => (Resolved /\ found = << >>))
    /\ (searchPc = "searching") ~> Resolved

\* C34 witness: a call for a track with 7 queries has resolved to null after
\* the seventh search call failed.
C34_Witness ==
    /\ Resolved
    /\ Len(queries) = 7
    /\ Len(issued) = 7
    /\ outcomes[7] = "failed"
    /\ found = << >>

(***************************************************************************)
(* Properties of the files a build or retry writes.                         *)
(***************************************************************************)
\* the items the running build or retry passes to addVideoToPlaylist
RunList == IF job.kind = "build" THEN job.tracksWithMatches ELSE job.failedTracks

\* the step in which a run saves its result
SavesResult ==
    /\ pc \in {"build", "retry"}
    /\ lastRun' \in {"build complete", "retry complete"}

\* C35: no step of a build or retry writes the progress file; the result
\* file changes only in the saving step of a run, which comes after the
\* add attempt of every item; a run killed in its loop leaves both files
\* as they are; and a retry that finds tracks_failed empty issues no add
\* call and writes nothing.
C35_ResultWrittenOnceAtEnd ==
    [][ /\ (pc \in {"build", "retry"} \/ pc' \in {"build", "retry"})
            => file' = file
        /\ resultFile' # resultFile => SavesResult
        /\ SavesResult =>
              /\ job.i = Len(RunList)
              /\ Len(addLog) = Len(RunList)
              /\ pc' = "idle"
        /\ (pc \in {"build", "retry"} /\ lastRun' = "killed")
            => (file' = file /\ resultFile' = resultFile)
        /\ (pc = "idle" /\ lastRun' = "nothing to retry")
            => (addLog' = << >> /\ file' = file /\ resultFile' = resultFile) ]_vars

\* C35 witness: a retry was killed after its first add attempt and before
\* its last, and the result file is the one it had loaded.
C35_Witness ==
    /\ pc = "idle"
    /\ lastRun = "killed"
    /\ job.kind = "retry"
    /\ Len(addLog) > 0
    /\ Len(addLog) < Len(job.failedTracks)
    /\ resultFile = <<job.progress>>

(***************************************************************************)
(* Properties of what findBestMatch accepts.                                *)
(***************************************************************************)
\* the title or the channel of the video contains the track name, a word
\* of it longer than 2 characters, a non-empty artist name or artist word,
\* 'official' or 'records'
TextualOverlap(t, video) ==
    LET trackName    == toLowerCase(t.name)
        artistName   == ArtistName(t)
        videoTitle   == toLowerCase(video.snippet.title)
        channelTitle == toLowerCase(video.snippet.channelTitle)
        trackWords   == Words(trackName)
        artistWords  == split(artistName)
        Contained(s) == includes(videoTitle, s) \/ includes(channelTitle, s)
    IN  \/ Contained(trackName)
        \/ \E k \in DOMAIN trackWords : Contained(trackWords[k])
        \/ artistName # "" /\ Contained(artistName)
        \/ \E k \in DOMAIN artistWords :
              artistWords[k] # "" /\ Contained(artistWords[k])
        \/ Contained("official")
        \/ Contained("records")

\* computed once for the tracks and videos of this model
TextualOverlaps == [t \in Tracks, video \in Videos |-> TextualOverlap(t, video)]

\* C36: the video findBestMatch accepts for a track has some textual
\* overlap with it, also when the track has no artist.
C36_AcceptedOverlaps ==
    (searchPc = "returned" /\ found # << >>) =>
        TextualOverlaps[spotifyTrack, found[1]]

(***************************************************************************)
(* Properties of findMatchesForTracks.                                      *)
(***************************************************************************)
\* the searches that were started and have not completed
InFlight == {k \in DOMAIN findMatches.status :
                findMatches.status[k] \in {"timer", "searching"}}

\* the group of batchSize tracks a track belongs to, counted from 0
GroupOf(k) == (k - 1) \div MatchBatchSize

\* the mappings of the tracks found, in the order of the input
RECURSIVE FoundInInputOrder(_, _)
FoundInInputOrder(status, k) ==
    IF k > Len(status) THEN << >>
    ELSE (IF status[k] = "found" THEN <<Mapping(k)>> ELSE << >>)
           \o FoundInInputOrder(status, k + 1)

\* C37: findMatchesForTracks has at most 3 searches running at a time, all
\* of one group, with every earlier group completed and no later one
\* started; and in whatever order the searches complete it returns the
\* mappings of exactly the tracks a video was found for, each once, in the
\* order of the input.
C37_GroupsOfThreeInInputOrder ==
    /\ Cardinality(InFlight) <= 3
    /\ \A k \in InFlight, m \in DOMAIN findMatches.status :
          /\ GroupOf(m) < GroupOf(k) => findMatches.status[m] \in {"found", "absent"}
          /\ GroupOf(m) > GroupOf(k) => findMatches.status[m] = "waiting"
    /\ findMatches.pc = "returned" =>
          findMatches.mappings = FoundInInputOrder(findMatches.status, 1)

\* C37 witness: a call for 5 tracks has returned; in its last group the
\* search of track 5 completed before that of track 4, and both were found.
C37_Witness ==
    /\ findMatches.pc = "returned"
    /\ findMatches.n = 5
    /\ findMatches.completed = <<5, 4>>
    /\ findMatches.status[4] = "found"
    /\ findMatches.status[5] = "found"
    /\ findMatches.status[1] = "absent"

(***************************************************************************)
(* Properties of convertPlaylist.                                           *)
(***************************************************************************)
\* C38: the addedCount convertPlaylist reports is the number of add
\* operations whose result was a success; an add that returned a failure
\* result is not counted.
C38_AddedCountCountsSuccesses ==
    conversion.pc = "returned" => conversion.addedCount = conversion.succeeded

(***************************************************************************)
(* Properties of retryWithBackoff.                                          *)
(***************************************************************************)
\* retryWithBackoff has settled
Settled == retrying.pc \in {"returned", "threw"}

\* C39: retryWithBackoff calls fn at least once and at most maxRetries
\* times; it resolves to the value of the first call that succeeds, which
\* is its last call; and when maxRetries calls have failed it rejects with
\* the error of the last of them.  This for every maxRetries, 0 included.
C39_CallsBetweenOneAndMaxRetries ==
    /\ Len(retrying.outcomes) <= Max(retrying.maxRetries, 0)
    /\ Settled =>
          LET calls == retrying.outcomes
          IN  /\ Len(calls) >= 1
              /\ \A k \in 1..(Len(calls) - 1) : ~calls[k].ok
              /\ retrying.result = <<calls[Len(calls)]>>
              /\ retrying.pc = "returned" <=> calls[Len(calls)].ok
              /\ retrying.pc = "threw" => Len(calls) = retrying.maxRetries

(***************************************************************************)
(* Properties of the OAuth handling.                                        *)
(***************************************************************************)
\* C31: once a run has exchanged an authorization code successfully, a
\* later run started without a code goes on to the playlist and does not
\* start the OAuth flow again.
C31_NoSecondOAuthFlow ==
    (oauth.exchangedBefore /\ oauth.authorizationCode = << >>)
        => oauth.pc \in {"oauth", "proceeds"}

=============================================================================
